---------------------------- MODULE Spec2Model ----------------------------
(***************************************************************************)
(* ColdVox documentation-governance gate: scripts/docs_semantic_review.py. *)
(*                                                                         *)
(* Text is modelled as a sequence of one-character strings, so that        *)
(* strip(), lower() and fnmatch() are computed character by character.     *)
(* Closed vocabularies the script only compares for equality (severity     *)
(* names, statuses, JSON member names) are modelled as TLA+ strings.       *)
(* A JSON number is modelled in tenths: 8 stands for 0.8, 10 for 1.        *)
(***************************************************************************)
EXTENDS Integers, Sequences, FiniteSets, TLC

(***************************************************************************)
(* Python helpers                                                          *)
(***************************************************************************)

\* dict.get(key, default)
Get(d, k, default) == IF k \in DOMAIN d THEN d[k] ELSE default

\* The value of dict.get(key) when the key is absent, and of a JSON null.
None == "<None>"

\* The characters str.strip() removes.
Whitespace == {" ", "\t", "\n", "\r"}

RECURSIVE lstrip(_)
lstrip(s) ==
    IF s # << >> /\ Head(s) \in Whitespace THEN lstrip(Tail(s)) ELSE s

RECURSIVE rstrip(_)
rstrip(s) ==
    IF s # << >> /\ s[Len(s)] \in Whitespace
    THEN rstrip(SubSeq(s, 1, Len(s) - 1))
    ELSE s

\* str.strip()
strip(s) == rstrip(lstrip(s))

UpperToLower ==
    [A |-> "a", B |-> "b", C |-> "c", D |-> "d", E |-> "e", F |-> "f",
     G |-> "g", H |-> "h", I |-> "i", J |-> "j", K |-> "k", L |-> "l",
     M |-> "m", N |-> "n", O |-> "o", P |-> "p", Q |-> "q", R |-> "r",
     S |-> "s", T |-> "t", U |-> "u", V |-> "v", W |-> "w", X |-> "x",
     Y |-> "y", Z |-> "z"]

\* str.lower()
lower(s) == [i \in 1..Len(s) |-> Get(UpperToLower, s[i], s[i])]

(***************************************************************************)
(* Module tables                                                           *)
(***************************************************************************)

SEVERITY_ORDER == [none |-> 0, minor |-> 1, major |-> 2, critical |-> 3]

ALLOWED_SEVERITIES == DOMAIN SEVERITY_ORDER

ALLOWED_DECISIONS == {"keep", "revise", "archive", "delete"}

ALLOWED_INTENT_TYPES ==
    {"northstar", "spec", "implementation", "research", "history",
     "playbook", "task", "reference"}

DOC_TYPE_ALIASES ==
    \* "implementation-plan": "plan"
       (<<"i","m","p","l","e","m","e","n","t","a","t","i","o","n","-","p","l","a","n">>
        :> <<"p","l","a","n">>)
    \* "dev-guide": "reference"
    @@ (<<"d","e","v","-","g","u","i","d","e">>
        :> <<"r","e","f","e","r","e","n","c","e">>)
    \* "runbook": "playbook"
    @@ (<<"r","u","n","b","o","o","k">>
        :> <<"p","l","a","y","b","o","o","k">>)

DOC_TYPE_PATH_POLICY ==
    \* "architecture"
       (<<"a","r","c","h","i","t","e","c","t","u","r","e">> :> [
        preferred |-> <<
            \* docs/architecture.md
            <<"d","o","c","s","/","a","r","c","h","i","t","e","c","t","u","r","e",".","m","d">>,
            \* docs/northstar.md
            <<"d","o","c","s","/","n","o","r","t","h","s","t","a","r",".","m","d">>,
            \* docs/architecture/**
            <<"d","o","c","s","/","a","r","c","h","i","t","e","c","t","u","r","e","/","*","*">>,
            \* docs/domains/**
            <<"d","o","c","s","/","d","o","m","a","i","n","s","/","*","*">>,
            \* docs/dev/CI/**
            <<"d","o","c","s","/","d","e","v","/","C","I","/","*","*">>
        >>,
        allowed |-> <<
            \* docs/plans/**
            <<"d","o","c","s","/","p","l","a","n","s","/","*","*">>,
            \* docs/archive/**
            <<"d","o","c","s","/","a","r","c","h","i","v","e","/","*","*">>
        >>
    ])
    \* "standard"
    @@ (<<"s","t","a","n","d","a","r","d">> :> [
        preferred |-> <<
            \* docs/standards.md
            <<"d","o","c","s","/","s","t","a","n","d","a","r","d","s",".","m","d">>,
            \* docs/todo.md
            <<"d","o","c","s","/","t","o","d","o",".","m","d">>,
            \* docs/anchor-*.md
            <<"d","o","c","s","/","a","n","c","h","o","r","-","*",".","m","d">>,
            \* docs/repo/**
            <<"d","o","c","s","/","r","e","p","o","/","*","*">>
        >>,
        allowed |-> <<
            \* docs/*.md
            <<"d","o","c","s","/","*",".","m","d">>,
            \* docs/dev/**
            <<"d","o","c","s","/","d","e","v","/","*","*">>
        >>
    ])
    \* "playbook"
    @@ (<<"p","l","a","y","b","o","o","k">> :> [
        preferred |-> <<
            \* docs/playbooks/**
            <<"d","o","c","s","/","p","l","a","y","b","o","o","k","s","/","*","*">>,
            \* docs/observability-playbook.md
            <<"d","o","c","s","/","o","b","s","e","r","v","a","b","i","l","i","t","y","-","p","l","a","y","b","o","o","k",".","m","d">>,
            \* docs/MasterDocumentationPlaybook.md
            <<"d","o","c","s","/","M","a","s","t","e","r","D","o","c","u","m","e","n","t","a","t","i","o","n","P","l","a","y","b","o","o","k",".","m","d">>
        >>,
        allowed |-> <<
            \* docs/*.md
            <<"d","o","c","s","/","*",".","m","d">>,
            \* docs/domains/**
            <<"d","o","c","s","/","d","o","m","a","i","n","s","/","*","*">>,
            \* docs/archive/**
            <<"d","o","c","s","/","a","r","c","h","i","v","e","/","*","*">>
        >>
    ])
    \* "reference"
    @@ (<<"r","e","f","e","r","e","n","c","e">> :> [
        preferred |-> <<
            \* docs/reference/**
            <<"d","o","c","s","/","r","e","f","e","r","e","n","c","e","/","*","*">>,
            \* docs/domains/**
            <<"d","o","c","s","/","d","o","m","a","i","n","s","/","*","*">>,
            \* docs/repo/**
            <<"d","o","c","s","/","r","e","p","o","/","*","*">>,
            \* docs/dependencies.md
            <<"d","o","c","s","/","d","e","p","e","n","d","e","n","c","i","e","s",".","m","d">>,
            \* docs/logging.md
            <<"d","o","c","s","/","l","o","g","g","i","n","g",".","m","d">>
        >>,
        allowed |-> <<
            \* docs/*.md
            <<"d","o","c","s","/","*",".","m","d">>,
            \* docs/playbooks/**
            <<"d","o","c","s","/","p","l","a","y","b","o","o","k","s","/","*","*">>
        >>
    ])
    \* "research"
    @@ (<<"r","e","s","e","a","r","c","h">> :> [
        preferred |-> <<
            \* docs/research/**
            <<"d","o","c","s","/","r","e","s","e","a","r","c","h","/","*","*">>,
            \* docs/archive/research/**
            <<"d","o","c","s","/","a","r","c","h","i","v","e","/","r","e","s","e","a","r","c","h","/","*","*">>
        >>,
        allowed |-> <<
            \* docs/plans/**
            <<"d","o","c","s","/","p","l","a","n","s","/","*","*">>,
            \* docs/history/**
            <<"d","o","c","s","/","h","i","s","t","o","r","y","/","*","*">>,
            \* docs/archive/**
            <<"d","o","c","s","/","a","r","c","h","i","v","e","/","*","*">>
        >>
    ])
    \* "plan"
    @@ (<<"p","l","a","n">> :> [
        preferred |-> <<
            \* docs/plans/**
            <<"d","o","c","s","/","p","l","a","n","s","/","*","*">>,
            \* docs/tasks/**
            <<"d","o","c","s","/","t","a","s","k","s","/","*","*">>,
            \* docs/issues/**
            <<"d","o","c","s","/","i","s","s","u","e","s","/","*","*">>
        >>,
        allowed |-> <<
            \* docs/research/**
            <<"d","o","c","s","/","r","e","s","e","a","r","c","h","/","*","*">>,
            \* docs/archive/plans/**
            <<"d","o","c","s","/","a","r","c","h","i","v","e","/","p","l","a","n","s","/","*","*">>,
            \* docs/domains/**
            <<"d","o","c","s","/","d","o","m","a","i","n","s","/","*","*">>
        >>
    ])
    \* "troubleshooting"
    @@ (<<"t","r","o","u","b","l","e","s","h","o","o","t","i","n","g">> :> [
        preferred |-> <<
            \* docs/issues/**
            <<"d","o","c","s","/","i","s","s","u","e","s","/","*","*">>,
            \* docs/domains/**/troubleshooting/**
            <<"d","o","c","s","/","d","o","m","a","i","n","s","/","*","*","/","t","r","o","u","b","l","e","s","h","o","o","t","i","n","g","/","*","*">>
        >>,
        allowed |-> <<
            \* docs/playbooks/**
            <<"d","o","c","s","/","p","l","a","y","b","o","o","k","s","/","*","*">>,
            \* docs/tasks/**
            <<"d","o","c","s","/","t","a","s","k","s","/","*","*">>,
            \* docs/domains/**
            <<"d","o","c","s","/","d","o","m","a","i","n","s","/","*","*">>
        >>
    ])
    \* "index"
    @@ (<<"i","n","d","e","x">> :> [
        preferred |-> <<
            \* docs/index.md
            <<"d","o","c","s","/","i","n","d","e","x",".","m","d">>,
            \* docs/reference/**
            <<"d","o","c","s","/","r","e","f","e","r","e","n","c","e","/","*","*">>,
            \* docs/archive/reference/**
            <<"d","o","c","s","/","a","r","c","h","i","v","e","/","r","e","f","e","r","e","n","c","e","/","*","*">>,
            \* docs/**/index.md
            <<"d","o","c","s","/","*","*","/","i","n","d","e","x",".","m","d">>,
            \* docs/**/overview.md
            <<"d","o","c","s","/","*","*","/","o","v","e","r","v","i","e","w",".","m","d">>,
            \* docs/**/*-overview.md
            <<"d","o","c","s","/","*","*","/","*","-","o","v","e","r","v","i","e","w",".","m","d">>
        >>,
        allowed |-> <<
            \* docs/domains/**
            <<"d","o","c","s","/","d","o","m","a","i","n","s","/","*","*">>,
            \* docs/archive/**
            <<"d","o","c","s","/","a","r","c","h","i","v","e","/","*","*">>
        >>
    ])
    \* "history"
    @@ (<<"h","i","s","t","o","r","y">> :> [
        preferred |-> <<
            \* docs/history/**
            <<"d","o","c","s","/","h","i","s","t","o","r","y","/","*","*">>,
            \* docs/archive/**
            <<"d","o","c","s","/","a","r","c","h","i","v","e","/","*","*">>
        >>,
        allowed |-> <<
            \* docs/research/logs/**
            <<"d","o","c","s","/","r","e","s","e","a","r","c","h","/","l","o","g","s","/","*","*">>
        >>
    ])

\* The frontmatter key "doc_type".
K_doc_type == <<"d","o","c","_","t","y","p","e">>

(***************************************************************************)
(* Placement policy                                                        *)
(***************************************************************************)

\* fnmatch(name, pat) on a POSIX host (normcase is the identity): "*" matches
\* any run of characters, "/" included; "?" matches any one character.
\* MatchFrom(name, pat, i, j): name[i..] matches pat[j..].
RECURSIVE MatchFrom(_, _, _, _)
MatchFrom(name, pat, i, j) ==
    IF j > Len(pat) THEN i > Len(name)
    ELSE IF pat[j] = "*"
         THEN \/ MatchFrom(name, pat, i, j + 1)
              \/ (i <= Len(name) /\ MatchFrom(name, pat, i + 1, j))
    ELSE IF pat[j] = "?"
         THEN i <= Len(name) /\ MatchFrom(name, pat, i + 1, j + 1)
    ELSE i <= Len(name) /\ name[i] = pat[j]
         /\ MatchFrom(name, pat, i + 1, j + 1)

fnmatch(name, pat) == MatchFrom(name, pat, 1, 1)

path_matches(path, patterns) ==
    \E n \in 1..Len(patterns) : fnmatch(path, patterns[n])

\* Faulty variant of normalize_doc_type: letter case is kept.
normalize_doc_type_case_sensitive(raw) ==
    LET cleaned == strip(raw)
    IN  Get(DOC_TYPE_ALIASES, cleaned, cleaned)

normalize_doc_type(raw) ==
    LET cleaned == lower(strip(raw))
    IN  Get(DOC_TYPE_ALIASES, cleaned, cleaned)

\* Faulty variant of RawDocType: the value is not stripped.
RawDocTypeUnstripped(frontmatter) == Get(frontmatter, K_doc_type, << >>)

\* frontmatter.get("doc_type", "").strip()
RawDocType(frontmatter) == strip(Get(frontmatter, K_doc_type, << >>))

\* Faulty variants of evaluate_path_policy, one per fault:
\*   "unknown-by-path"  a type without policy entry is judged by its path
\*   "allowed-first"    the allowed patterns are tested before the preferred
\*   "no-allowed"       the allowed patterns are not tested at all
\*   "drift-is-clean"   placement-drift carries severity none
\*   "invalid-is-critical"  placement-invalid carries severity critical
evaluate_path_policy_faulty(path, frontmatter, fault) ==
    LET raw_doc_type == RawDocType(frontmatter)
        normalized_doc_type == normalize_doc_type(raw_doc_type)
        known == normalized_doc_type \in DOMAIN DOC_TYPE_PATH_POLICY
        policy == IF known THEN DOC_TYPE_PATH_POLICY[normalized_doc_type]
                  ELSE [preferred |-> << >>, allowed |-> << >>]
        preferred == path_matches(path, policy.preferred)
        allowed == fault # "no-allowed" /\ path_matches(path, policy.allowed)
        status ==
            IF raw_doc_type = << >> THEN "missing-doc-type"
            ELSE IF ~known /\ fault # "unknown-by-path" THEN "unknown-doc-type"
            ELSE IF fault = "allowed-first" /\ allowed THEN "placement-drift"
            ELSE IF preferred THEN "ok"
            ELSE IF allowed THEN "placement-drift"
            ELSE "placement-invalid"
        severity ==
            CASE status = "ok" -> "none"
              [] status = "placement-drift" ->
                    IF fault = "drift-is-clean" THEN "none" ELSE "minor"
              [] status = "placement-invalid" /\ fault = "invalid-is-critical" ->
                    "critical"
              [] OTHER -> "major"
    IN  [status |-> status,
         severity |-> severity,
         raw_doc_type |-> raw_doc_type,
         normalized_doc_type |->
             IF raw_doc_type = << >> THEN << >> ELSE normalized_doc_type,
         reason |-> status,
         preferred_paths |-> policy.preferred,
         allowed_paths |-> policy.allowed]

evaluate_path_policy_unknown_by_path(path, frontmatter) ==
    evaluate_path_policy_faulty(path, frontmatter, "unknown-by-path")

evaluate_path_policy_allowed_first(path, frontmatter) ==
    evaluate_path_policy_faulty(path, frontmatter, "allowed-first")

evaluate_path_policy_no_allowed(path, frontmatter) ==
    evaluate_path_policy_faulty(path, frontmatter, "no-allowed")

evaluate_path_policy_drift_is_clean(path, frontmatter) ==
    evaluate_path_policy_faulty(path, frontmatter, "drift-is-clean")

evaluate_path_policy_invalid_is_critical(path, frontmatter) ==
    evaluate_path_policy_faulty(path, frontmatter, "invalid-is-critical")

evaluate_path_policy(path, frontmatter) ==
    LET raw_doc_type == RawDocType(frontmatter)
        normalized_doc_type == normalize_doc_type(raw_doc_type)
        known == normalized_doc_type \in DOMAIN DOC_TYPE_PATH_POLICY
        policy == DOC_TYPE_PATH_POLICY[normalized_doc_type]
    IN  IF raw_doc_type = << >> THEN
            [status |-> "missing-doc-type",
             severity |-> "major",
             raw_doc_type |-> << >>,
             normalized_doc_type |-> << >>,
             reason |-> "frontmatter doc_type is missing",
             preferred_paths |-> << >>,
             allowed_paths |-> << >>]
        ELSE IF ~known THEN
            [status |-> "unknown-doc-type",
             severity |-> "major",
             raw_doc_type |-> raw_doc_type,
             normalized_doc_type |-> normalized_doc_type,
             reason |-> "doc_type is not recognized by policy",
             preferred_paths |-> << >>,
             allowed_paths |-> << >>]
        ELSE IF path_matches(path, policy.preferred) THEN
            [status |-> "ok",
             severity |-> "none",
             raw_doc_type |-> raw_doc_type,
             normalized_doc_type |-> normalized_doc_type,
             reason |-> "path matches preferred placement policy",
             preferred_paths |-> policy.preferred,
             allowed_paths |-> policy.allowed]
        ELSE IF path_matches(path, policy.allowed) THEN
            [status |-> "placement-drift",
             severity |-> "minor",
             raw_doc_type |-> raw_doc_type,
             normalized_doc_type |-> normalized_doc_type,
             reason |-> "path is allowed but not preferred for this doc_type",
             preferred_paths |-> policy.preferred,
             allowed_paths |-> policy.allowed]
        ELSE
            [status |-> "placement-invalid",
             severity |-> "major",
             raw_doc_type |-> raw_doc_type,
             normalized_doc_type |-> normalized_doc_type,
             reason |-> "path does not match preferred or allowed placement policy",
             preferred_paths |-> policy.preferred,
             allowed_paths |-> policy.allowed]

\* Faulty variant of collect_policy_findings: only major findings are kept.
collect_policy_findings_major_only(doc_list) ==
    LET HasFinding(doc) ==
            Get(Get(doc, "policy", << >>), "severity", "none") = "major"
        Finding(doc) ==
            LET policy == Get(doc, "policy", << >>)
            IN  [path |-> Get(doc, "path", << >>),
                 severity |-> Get(policy, "severity", "none"),
                 status |-> Get(policy, "status", ""),
                 reason |-> Get(policy, "reason", ""),
                 raw_doc_type |-> Get(policy, "raw_doc_type", << >>),
                 normalized_doc_type |-> Get(policy, "normalized_doc_type", << >>),
                 preferred_paths |-> Get(policy, "preferred_paths", << >>)]
        kept == SelectSeq(doc_list, HasFinding)
    IN  [i \in 1..Len(kept) |-> Finding(kept[i])]

collect_policy_findings(doc_list) ==
    LET HasFinding(doc) ==
            Get(Get(doc, "policy", << >>), "severity", "none") # "none"
        Finding(doc) ==
            LET policy == Get(doc, "policy", << >>)
            IN  [path |-> Get(doc, "path", << >>),
                 severity |-> Get(policy, "severity", "none"),
                 status |-> Get(policy, "status", ""),
                 reason |-> Get(policy, "reason", ""),
                 raw_doc_type |-> Get(policy, "raw_doc_type", << >>),
                 normalized_doc_type |-> Get(policy, "normalized_doc_type", << >>),
                 preferred_paths |-> Get(policy, "preferred_paths", << >>)]
        kept == SelectSeq(doc_list, HasFinding)
    IN  [i \in 1..Len(kept) |-> Finding(kept[i])]

(***************************************************************************)
(* parse_frontmatter                                                       *)
(***************************************************************************)

\* str.startswith(prefix)
startswith(s, prefix) ==
    Len(s) >= Len(prefix) /\ SubSeq(s, 1, Len(prefix)) = prefix

\* str.index(sub, start): the least offset (from 0) at or after start where
\* sub occurs; -1 stands for ValueError.
IndexFrom(s, sub, start) ==
    LET found == {i \in start..(Len(s) - Len(sub)) :
                     SubSeq(s, i + 1, i + Len(sub)) = sub}
    IN  IF found = {} THEN -1
        ELSE CHOOSE i \in found : \A j \in found : i <= j

\* str.lstrip(chars), str.rstrip(chars), str.strip(chars)
RECURSIVE lstrip_chars(_, _)
lstrip_chars(s, chars) ==
    IF s # << >> /\ Head(s) \in chars THEN lstrip_chars(Tail(s), chars) ELSE s

RECURSIVE rstrip_chars(_, _)
rstrip_chars(s, chars) ==
    IF s # << >> /\ s[Len(s)] \in chars
    THEN rstrip_chars(SubSeq(s, 1, Len(s) - 1), chars)
    ELSE s

strip_chars(s, chars) == rstrip_chars(lstrip_chars(s, chars), chars)

\* str.splitlines() for text whose only line boundary is "\n": no empty
\* last line after a final "\n".
RECURSIVE splitlines(_)
splitlines(s) ==
    IF s = << >> THEN << >>
    ELSE LET n == IndexFrom(s, <<"\n">>, 0)
         IN  IF n = -1 THEN <<s>>
             ELSE <<SubSeq(s, 1, n)>> \o splitlines(SubSeq(s, n + 2, Len(s)))

\* "---\n" and "\n---"
OpeningMarker == <<"-", "-", "-", "\n">>

ClosingMarker == <<"\n", "-", "-", "-">>

\* The loop over header.splitlines(): a later line with the same key
\* replaces the earlier value.
RECURSIVE HeaderValues(_, _)
HeaderValues(lines, values) ==
    IF lines = << >> THEN values
    ELSE LET stripped == strip(Head(lines))
             colon == IndexFrom(stripped, <<":">>, 0)
         IN  IF stripped = << >> \/ Head(stripped) = "#" \/ colon = -1
             THEN HeaderValues(Tail(lines), values)
             ELSE LET key == strip(SubSeq(stripped, 1, colon))
                      raw == SubSeq(stripped, colon + 2, Len(stripped))
                  IN  HeaderValues(
                          Tail(lines),
                          (key :> strip_chars(strip(raw), {"'", "\""}))
                          @@ values)

\* Faulty variant of ClosingIndex: without closing marker the header runs to
\* the end of the text.
ClosingIndexOrEnd(text) ==
    LET closing == IndexFrom(text, ClosingMarker, 4)
    IN  IF closing = -1 THEN Len(text) ELSE closing

\* text.index("\n---", 4)
ClosingIndex(text) == IndexFrom(text, ClosingMarker, 4)

\* Returns the tuple (values, body).
parse_frontmatter(text) ==
    IF ~startswith(text, OpeningMarker) THEN << << >>, text >>
    ELSE LET closing == ClosingIndex(text)
         IN  IF closing = -1 THEN << << >>, text >>
             ELSE LET header == SubSeq(text, 5, closing)
                      body == lstrip_chars(
                                  SubSeq(text, closing + 5, Len(text)), {"\n"})
                  IN  << HeaderValues(splitlines(header), << >>), body >>

(***************************************************************************)
(* load_northstar_goals                                                    *)
(***************************************************************************)

\* {"core goals", "execution priority (current)"}
TargetSections ==
    {
      \* 'core goals'
      <<"c", "o", "r", "e", " ", "g", "o", "a", "l", "s">>,
      \* 'execution priority (current)'
      <<"e", "x", "e", "c", "u", "t", "i", "o", "n", " ", "p", "r", "i", "o", "r", "i", "t", "y", " ", "(", "c", "u", "r", "r", "e", "n", "t", ")">>
    }

\* The loop over body.splitlines(); in_target is the flag the last "## "
\* line left.
RECURSIVE GoalsFrom(_, _)
GoalsFrom(lines, in_target) ==
    IF lines = << >> THEN << >>
    ELSE LET line == strip(Head(lines))
         IN  IF startswith(line, <<"#", "#", " ">>)
             THEN GoalsFrom(Tail(lines),
                            lower(strip(SubSeq(line, 4, Len(line))))
                                \in TargetSections)
             ELSE (IF in_target /\ startswith(line, <<"-", " ">>)
                   THEN <<strip(SubSeq(line, 3, Len(line)))>>
                   ELSE << >>)
                  \o GoalsFrom(Tail(lines), in_target)

\* file: whether docs/northstar.md exists, and its text.
load_northstar_goals(file) ==
    IF ~file.exists THEN << >>
    ELSE LET body == parse_frontmatter(file.text)[2]
         IN  GoalsFrom(splitlines(body), FALSE)

(***************************************************************************)
(* summarize_body                                                          *)
(***************************************************************************)

\* re.sub(r"\s+", " ", body): every run of whitespace becomes one space.
RECURSIVE CompactWhitespace(_)
CompactWhitespace(s) ==
    IF s = << >> THEN << >>
    ELSE IF Head(s) \in Whitespace
         THEN <<" ">> \o CompactWhitespace(lstrip(s))
         ELSE <<Head(s)>> \o CompactWhitespace(Tail(s))

\* s[:k], also for negative k, which counts from the end.
SliceTo(s, k) ==
    LET end == IF k >= 0 THEN k ELSE Len(s) + k
    IN  SubSeq(s, 1, IF end > Len(s) THEN Len(s) ELSE IF end < 0 THEN 0 ELSE end)

summarize_body(body, max_chars) ==
    LET compact == strip(CompactWhitespace(body))
    IN  IF Len(compact) <= max_chars THEN compact
        ELSE SliceTo(compact, max_chars - 3) \o <<".", ".", ".">>

(***************************************************************************)
(* Severity aggregation and the gate rule                                  *)
(***************************************************************************)

\* max(seen, key=lambda x: SEVERITY_ORDER[x]) on a non-empty list: the first
\* element of greatest rank.
RECURSIVE MaxBySeverityOrder(_)
MaxBySeverityOrder(seen) ==
    IF Len(seen) = 1 THEN seen[1]
    ELSE LET rest == MaxBySeverityOrder(Tail(seen))
         IN  IF SEVERITY_ORDER[Head(seen)] >= SEVERITY_ORDER[rest]
             THEN Head(seen)
             ELSE rest

\* Faulty variant of should_fail: strict comparison.
should_fail_strict(worst, threshold) ==
    IF threshold = "none" THEN FALSE
    ELSE Get(SEVERITY_ORDER, worst, 0) > SEVERITY_ORDER[threshold]

should_fail(worst, threshold) ==
    IF threshold = "none" THEN FALSE
    ELSE Get(SEVERITY_ORDER, worst, 0) >= SEVERITY_ORDER[threshold]

\* Faulty variant of worst_policy_severity: max() without the key function
\* compares the names as strings ("critical" < "major" < "minor" < "none").
LexicalOrder == [critical |-> 0, major |-> 1, minor |-> 2, none |-> 3]

RECURSIVE MaxByLexicalOrder(_)
MaxByLexicalOrder(seen) ==
    IF Len(seen) = 1 THEN seen[1]
    ELSE LET rest == MaxByLexicalOrder(Tail(seen))
         IN  IF LexicalOrder[Head(seen)] >= LexicalOrder[rest]
             THEN Head(seen)
             ELSE rest

worst_policy_severity_lexical(findings) ==
    LET InOrder(f) == Get(f, "severity", None) \in DOMAIN SEVERITY_ORDER
        kept == SelectSeq(findings, InOrder)
        severities == [i \in 1..Len(kept) |-> Get(kept[i], "severity", "none")]
    IN  IF findings = << >> THEN "none"
        ELSE IF severities = << >> THEN "none"
        ELSE MaxByLexicalOrder(severities)

worst_policy_severity(findings) ==
    LET InOrder(f) == Get(f, "severity", None) \in DOMAIN SEVERITY_ORDER
        kept == SelectSeq(findings, InOrder)
        severities == [i \in 1..Len(kept) |-> Get(kept[i], "severity", "none")]
    IN  IF findings = << >> THEN "none"
        ELSE IF severities = << >> THEN "none"
        ELSE MaxBySeverityOrder(severities)

(***************************************************************************)
(* Judge output                                                            *)
(*                                                                         *)
(* A JSON object is a function from its member names to their values.  A   *)
(* confidence value is [kind, val]: kind is the Python type json.loads     *)
(* yields ("int", "float", "bool", "str", "null", or "nan" for the float   *)
(* NaN, which json.loads accepts); val is the number in tenths (True is 1, *)
(* False is 0), and 0 where there is no number.                            *)
(***************************************************************************)

NoConfidence == [kind |-> "null", val |-> 0]

\* isinstance(conf, (int, float)): bool is a subclass of int, NaN is a float.
IsIntOrFloat(conf) == conf.kind \in {"int", "float", "bool", "nan"}

\* conf < 0, conf > 1, conf >= floor: every comparison with NaN is False.
LessThanZero(conf) == conf.kind # "nan" /\ conf.val < 0

GreaterThanOne(conf) == conf.kind # "nan" /\ conf.val > 10

\* Faulty variant of AtLeast: strict comparison.
StrictlyAbove(conf, min_confidence) ==
    conf.kind # "nan" /\ conf.val > min_confidence

AtLeast(conf, min_confidence) == conf.kind # "nan" /\ conf.val >= min_confidence

TopLevelKeys == <<"global", "documents", "cross_doc_conflicts", "in_scope_issues">>

\* The errors validate_model_output appends for documents[idx] (idx from 1).
DocumentErrors(doc, idx) ==
    LET sev == Get(doc, "severity", None)
        decision == Get(doc, "decision", None)
        intent == Get(doc, "intent_type", None)
        conf == Get(doc, "confidence", NoConfidence)
    IN  (IF sev \notin ALLOWED_SEVERITIES
         THEN <<[msg |-> "documents invalid severity", idx |-> idx]>>
         ELSE << >>)
        \o (IF decision \notin ALLOWED_DECISIONS
            THEN <<[msg |-> "documents invalid decision", idx |-> idx]>>
            ELSE << >>)
        \o (IF intent \notin ALLOWED_INTENT_TYPES
            THEN <<[msg |-> "documents invalid intent_type", idx |-> idx]>>
            ELSE << >>)
        \o (IF ~IsIntOrFloat(conf) \/ LessThanZero(conf) \/ GreaterThanOne(conf)
            THEN <<[msg |-> "documents invalid confidence", idx |-> idx]>>
            ELSE << >>)

ConflictErrors(conflict, idx) ==
    IF Get(conflict, "severity", None) \notin ALLOWED_SEVERITIES
    THEN <<[msg |-> "cross_doc_conflicts invalid severity", idx |-> idx]>>
    ELSE << >>

\* The errors of the documents loop, from documents[from] on.
RECURSIVE DocumentsErrors(_, _)
DocumentsErrors(documents, from) ==
    IF from > Len(documents) THEN << >>
    ELSE DocumentErrors(documents[from], from)
         \o DocumentsErrors(documents, from + 1)

\* The errors of the conflicts loop, from conflicts[from] on.
RECURSIVE ConflictsErrors(_, _)
ConflictsErrors(conflicts, from) ==
    IF from > Len(conflicts) THEN << >>
    ELSE ConflictErrors(conflicts[from], from)
         \o ConflictsErrors(conflicts, from + 1)

RECURSIVE MissingKeys(_, _)
MissingKeys(model_output, from) ==
    IF from > Len(TopLevelKeys) THEN << >>
    ELSE (IF TopLevelKeys[from] \notin DOMAIN model_output
          THEN <<[msg |-> "missing top-level key", key |-> TopLevelKeys[from]]>>
          ELSE << >>)
         \o MissingKeys(model_output, from + 1)

validate_model_output(model_output) ==
    LET global_block == Get(model_output, "global", << >>)
        max_severity == Get(global_block, "max_severity", None)
    IN  MissingKeys(model_output, 1)
        \o (IF max_severity \notin ALLOWED_SEVERITIES
            THEN <<[msg |-> "invalid global.max_severity"]>>
            ELSE << >>)
        \o DocumentsErrors(Get(model_output, "documents", << >>), 1)
        \o ConflictsErrors(Get(model_output, "cross_doc_conflicts", << >>), 1)

\* The severities the documents loop appends to seen.
RECURSIVE DocumentsSeen(_, _)
DocumentsSeen(documents, min_confidence) ==
    IF documents = << >> THEN << >>
    ELSE LET doc == Head(documents)
             severity == Get(doc, "severity", "none")
             confidence == Get(doc, "confidence", [kind |-> "float", val |-> 0])
         IN  (IF /\ severity \in DOMAIN SEVERITY_ORDER
                 /\ IsIntOrFloat(confidence)
                 /\ AtLeast(confidence, min_confidence)
              THEN <<severity>>
              ELSE << >>)
             \o DocumentsSeen(Tail(documents), min_confidence)

\* Faulty variant of ConflictsSeen: the conflicts are not counted.
ConflictsSeenDropped(conflicts) == << >>

\* The severities the conflicts loop appends to seen.
RECURSIVE ConflictsSeen(_)
ConflictsSeen(conflicts) ==
    IF conflicts = << >> THEN << >>
    ELSE LET severity == Get(Head(conflicts), "severity", "none")
         IN  (IF severity \in DOMAIN SEVERITY_ORDER THEN <<severity>> ELSE << >>)
             \o ConflictsSeen(Tail(conflicts))

\* Faulty variant of max_observed_severity_with_confidence: the source's
\* max_observed_severity, which counts every document whatever its confidence.
RECURSIVE AllDocumentsSeen(_)
AllDocumentsSeen(documents) ==
    IF documents = << >> THEN << >>
    ELSE <<Get(Head(documents), "severity", "none")>>
         \o AllDocumentsSeen(Tail(documents))

max_observed_severity_any_confidence(model_output, min_confidence) ==
    LET InOrder(s) == s \in DOMAIN SEVERITY_ORDER
        seen == <<Get(Get(model_output, "global", << >>), "max_severity", "none")>>
                \o AllDocumentsSeen(Get(model_output, "documents", << >>))
                \o ConflictsSeen(Get(model_output, "cross_doc_conflicts", << >>))
        kept == SelectSeq(seen, InOrder)
    IN  IF kept = << >> THEN "none" ELSE MaxBySeverityOrder(kept)

max_observed_severity_with_confidence(model_output, min_confidence) ==
    LET InOrder(s) == s \in DOMAIN SEVERITY_ORDER
        seen == <<Get(Get(model_output, "global", << >>), "max_severity", "none")>>
                \o DocumentsSeen(Get(model_output, "documents", << >>),
                                 min_confidence)
                \o ConflictsSeen(Get(model_output, "cross_doc_conflicts", << >>))
        kept == SelectSeq(seen, InOrder)
    IN  IF kept = << >> THEN "none" ELSE MaxBySeverityOrder(kept)

\* Raw doc_type values: blank, canonical, padded, upper case, aliases, unknown.
DocTypeInputs ==
    {
      \* ''
      << >>,
      \* ' '
      <<" ">>,
      \* ' \t'
      <<" ","\t">>,
      \* 'plan'
      <<"p","l","a","n">>,
      \* ' Plan '
      <<" ","P","l","a","n"," ">>,
      \* 'PLAN\n'
      <<"P","L","A","N","\n">>,
      \* 'Implementation-Plan'
      <<"I","m","p","l","e","m","e","n","t","a","t","i","o","n","-","P","l","a","n">>,
      \* 'runbook'
      <<"r","u","n","b","o","o","k">>,
      \* 'dev-guide'
      <<"d","e","v","-","g","u","i","d","e">>,
      \* 'standard'
      <<"s","t","a","n","d","a","r","d">>,
      \* 'index'
      <<"i","n","d","e","x">>,
      \* 'history'
      <<"h","i","s","t","o","r","y">>,
      \* 'bogus'
      <<"b","o","g","u","s">>,
      \* 'pla n'
      <<"p","l","a"," ","n">>
    }

\* Paths of changed documents.
PathInputs ==
    {
      \* 'docs/plans/x.md'
      <<"d","o","c","s","/","p","l","a","n","s","/","x",".","m","d">>,
      \* 'docs/Plans/x.md'
      <<"d","o","c","s","/","P","l","a","n","s","/","x",".","m","d">>,
      \* 'docs/random/x.md'
      <<"d","o","c","s","/","r","a","n","d","o","m","/","x",".","m","d">>,
      \* 'docs/x.md'
      <<"d","o","c","s","/","x",".","m","d">>,
      \* 'docs/a/x.md'
      <<"d","o","c","s","/","a","/","x",".","m","d">>,
      \* 'docs/domains/a/x.md'
      <<"d","o","c","s","/","d","o","m","a","i","n","s","/","a","/","x",".","m","d">>,
      \* 'docs/archive/plans/x.md'
      <<"d","o","c","s","/","a","r","c","h","i","v","e","/","p","l","a","n","s","/","x",".","m","d">>,
      \* 'docs/research/logs/x.md'
      <<"d","o","c","s","/","r","e","s","e","a","r","c","h","/","l","o","g","s","/","x",".","m","d">>,
      \* 'docs/index.md'
      <<"d","o","c","s","/","i","n","d","e","x",".","m","d">>,
      \* 'docs/anchor-x.md'
      <<"d","o","c","s","/","a","n","c","h","o","r","-","x",".","m","d">>,
      \* 'docs/dev/x.md'
      <<"d","o","c","s","/","d","e","v","/","x",".","m","d">>
    }

(***************************************************************************)
(* Inputs                                                                  *)
(***************************************************************************)

\* Most documents[] entries of a judge output.
MaxJudgeDocs == 2

\* Most cross_doc_conflicts[] entries of a judge output.
MaxConflicts == 1

\* Most policy findings handed to worst_policy_severity on its own.
MaxFindings == 3

\* Marks a member left out of a JSON object.
Absent == "<absent>"

Member(k, v) == IF v = Absent THEN << >> ELSE k :> v

ConfidenceMember(conf) ==
    IF conf.kind = "absent" THEN << >> ELSE "confidence" :> conf

Float(tenths) == [kind |-> "float", val |-> tenths]

JsonTrue == [kind |-> "bool", val |-> 10]

JsonNaN == [kind |-> "nan", val |-> 0]

JsonString == [kind |-> "str", val |-> 0]

AbsentConfidence == [kind |-> "absent", val |-> 0]

\* Sequences over S of length 0..n.
SeqsUpTo(S, n) == UNION {[1..k -> S] : k \in 0..n}

\* The "global" object; complete: with the members the validator never reads.
GlobalBlock(max_severity, complete) ==
    Member("max_severity", max_severity)
    @@ (IF complete
        THEN "overall" :> "pass" @@ "summary" :> "summary"
             @@ "blocking_reasons" :> <<"reason">>
        ELSE << >>)

\* A documents[] entry; complete: with the members the validator never reads.
DocumentEntry(severity, decision, intent_type, confidence, complete) ==
    Member("severity", severity)
    @@ Member("decision", decision)
    @@ Member("intent_type", intent_type)
    @@ ConfidenceMember(confidence)
    @@ (IF complete
        THEN "path" :> "docs/x.md" @@ "reason" :> "reason"
             @@ "required_actions" :> << >> @@ "frontmatter_patch" :> << >>
             @@ "similar_docs" :> << >>
        ELSE << >>)

\* A cross_doc_conflicts[] entry.
ConflictEntry(severity, complete) ==
    Member("severity", severity)
    @@ (IF complete
        THEN "docs" :> << >> @@ "issue" :> "issue"
             @@ "recommended_source_of_truth" :> "docs/x.md"
        ELSE << >>)

\* A judge output object with the top-level members named in present.
JudgeOutput(present, global_block, documents, conflicts) ==
    (IF "global" \in present THEN "global" :> global_block ELSE << >>)
    @@ (IF "documents" \in present THEN "documents" :> documents ELSE << >>)
    @@ (IF "cross_doc_conflicts" \in present
        THEN "cross_doc_conflicts" :> conflicts ELSE << >>)
    @@ (IF "in_scope_issues" \in present
        THEN "in_scope_issues" :> << >> ELSE << >>)

AllTopLevelKeys == {TopLevelKeys[i] : i \in 1..Len(TopLevelKeys)}

\* Candidate outputs for the validator: every field right, wrong or missing.
ValidatorGlobals ==
    {GlobalBlock(s, TRUE) : s \in {"critical", "blocker", Absent}}

ValidatorDocuments ==
    {DocumentEntry(s, "keep", "spec", Float(8), TRUE) :
        s \in {"major", "blocker", Absent}}
    \cup {DocumentEntry("none", d, "spec", Float(0), TRUE) :
        d \in {"merge", Absent}}
    \cup {DocumentEntry("none", "delete", i, Float(10), TRUE) :
        i \in {"essay", Absent}}
    \cup {DocumentEntry("minor", "revise", "task", c, TRUE) :
        c \in {Float(-1), Float(11), JsonTrue, JsonNaN, JsonString,
               AbsentConfidence}}
    \cup {DocumentEntry(Absent, "merge", Absent, Float(11), TRUE)}

ValidatorConflicts ==
    {ConflictEntry(s, TRUE) : s \in {"minor", "blocker"}}
    \cup {ConflictEntry(Absent, TRUE)}

\* Outputs that pass the validator, for the aggregator.
AggregatorDocuments ==
    {DocumentEntry(s, "keep", "spec", c, TRUE) :
        s \in ALLOWED_SEVERITIES, c \in {Float(5), Float(8), JsonTrue, JsonNaN}}

AggregatorConflicts == {ConflictEntry(s, TRUE) : s \in {"minor", "critical"}}

\* --min-confidence, in tenths.
ConfidenceFloors == {5, 8, 11}

\* Findings as collect_policy_findings builds them, reduced to what
\* worst_policy_severity reads.
FindingInputs == {[severity |-> s] : s \in ALLOWED_SEVERITIES}

\* Frontmatter mappings: without doc_type, and with each raw doc_type.
K_title == <<"t","i","t","l","e">>

FrontmatterInputs ==
    {<< >>, K_title :> <<"T">>}
    \cup {K_doc_type :> t : t \in DocTypeInputs}
    \cup {K_doc_type :> t @@ K_title :> <<"T">> : t \in {<< >>, <<"p","l","a","n">>}}

\* Changed documents as git and the file system present them: the change
\* code, the path, whether the file can be read, and the frontmatter
\* mapping of its text.
ChangedInputs ==
    {
      \* A docs/plans/x.md, doc_type 'plan': ok
      [status |-> "A", exists |-> TRUE,
       path |-> <<"d","o","c","s","/","p","l","a","n","s","/","x",".","m","d">>,
       frontmatter |-> K_doc_type :> <<"p","l","a","n">>],
      \* M docs/research/x.md, doc_type ' Plan ': placement-drift
      [status |-> "M", exists |-> TRUE,
       path |-> <<"d","o","c","s","/","r","e","s","e","a","r","c","h","/","x",".","m","d">>,
       frontmatter |-> K_doc_type :> <<" ","P","l","a","n"," ">>],
      \* R docs/random/x.md, doc_type 'research': placement-invalid
      [status |-> "R", exists |-> TRUE,
       path |-> <<"d","o","c","s","/","r","a","n","d","o","m","/","x",".","m","d">>,
       frontmatter |-> K_doc_type :> <<"r","e","s","e","a","r","c","h">>],
      \* A docs/x.md, doc_type None: missing-doc-type
      [status |-> "A", exists |-> TRUE,
       path |-> <<"d","o","c","s","/","x",".","m","d">>,
       frontmatter |-> << >>],
      \* M docs/gone.md, doc_type 'plan': file not found
      [status |-> "M", exists |-> FALSE,
       path |-> <<"d","o","c","s","/","g","o","n","e",".","m","d">>,
       frontmatter |-> K_doc_type :> <<"p","l","a","n">>]
    }

\* Most changed documents git reports in a run.
MaxChanged == 2

\* --max-docs: a cap that cuts the list, and the default.
MaxDocsInputs == {1, 30}

SeverityChoices == {"none", "minor", "major", "critical"}

\* --llm-output: not given, or a path of the caller.
LlmOutputInputs == {"", "judge.json"}

\* --openai-api-key: not set, or a key.
ApiKeyInputs == {"", "sk-key"}

\* A parsed JSON text: an object with its members, or an array.
JsonObject(members) == [json |-> "object", v |-> members]

JsonArray == [json |-> "array", v |-> << >>]

NoJson == [json |-> "unset", v |-> << >>]

\* Judge outputs a run meets: outputs the validator accepts, ...
AcceptedOutputs ==
    {JudgeOutput(AllTopLevelKeys, GlobalBlock(s, TRUE), << >>, << >>) :
        s \in ALLOWED_SEVERITIES}
    \cup {JudgeOutput(AllTopLevelKeys, GlobalBlock("none", TRUE),
                      <<DocumentEntry(s, "revise", "spec", Float(5), TRUE)>>,
                      << >>) : s \in {"minor", "critical"}}
    \cup {JudgeOutput(AllTopLevelKeys, GlobalBlock("minor", TRUE),
                      <<DocumentEntry("major", "keep", "task", Float(8), TRUE)>>,
                      <<ConflictEntry("none", TRUE)>>),
          JudgeOutput(AllTopLevelKeys, GlobalBlock("none", TRUE), << >>,
                      <<ConflictEntry("critical", TRUE)>>)}

\* ... outputs it accepts although a schema-required member is missing or a
\* confidence is not a JSON number, ...
LaxOutputs ==
    {JudgeOutput(AllTopLevelKeys, GlobalBlock("none", FALSE), << >>, << >>),
     JudgeOutput(AllTopLevelKeys, GlobalBlock("minor", TRUE),
                 <<DocumentEntry("minor", "keep", "spec", Float(10), FALSE)>>,
                 << >>),
     JudgeOutput(AllTopLevelKeys, GlobalBlock("none", TRUE),
                 <<DocumentEntry("none", "keep", "spec", JsonTrue, TRUE)>>,
                 << >>),
     JudgeOutput(AllTopLevelKeys, GlobalBlock("none", TRUE), << >>,
                 <<ConflictEntry("minor", FALSE)>>)}

\* ... and outputs it rejects.
RejectedOutputs ==
    {JudgeOutput(AllTopLevelKeys \ {"cross_doc_conflicts"},
                 GlobalBlock("none", TRUE), << >>, << >>),
     JudgeOutput(AllTopLevelKeys \ {"global", "in_scope_issues"},
                 GlobalBlock("none", TRUE), << >>, << >>),
     JudgeOutput(AllTopLevelKeys, GlobalBlock("blocker", TRUE), << >>, << >>),
     JudgeOutput(AllTopLevelKeys, GlobalBlock("critical", TRUE),
                 <<DocumentEntry("critical", "merge", "spec", Float(11), TRUE)>>,
                 << >>),
     JudgeOutput(AllTopLevelKeys, GlobalBlock("none", TRUE), << >>,
                 <<ConflictEntry(Absent, TRUE)>>)}

JsonInputs ==
    {JsonObject(o) : o \in AcceptedOutputs \cup LaxOutputs \cup RejectedOutputs}
    \cup {JsonArray}

\* What the judge output file holds when the run did not write it.
FileInputs ==
    {[state |-> "missing", content |-> NoJson],
     [state |-> "not-json", content |-> NoJson]}
    \cup {[state |-> "json", content |-> j] : j \in JsonInputs}

\* What the judging service answers to the one request.
ReplyKinds ==
    {"http-error", "url-error", "timeout", "body-not-json", "no-choices",
     "no-content", "content-not-json", "content-json"}

ServiceReplies ==
    {[kind |-> k, content |-> NoJson] : k \in ReplyKinds \ {"content-json"}}
    \cup {[kind |-> "content-json", content |-> j] : j \in JsonInputs}

NoReply == [kind |-> "none", content |-> NoJson]

(***************************************************************************)
(* build_output_schema: the schema the judge is given                      *)
(***************************************************************************)

MatchesGlobalSchema(g) ==
    /\ DOMAIN g = {"overall", "summary", "max_severity", "blocking_reasons"}
    /\ g["overall"] \in {"pass", "fail"}
    /\ g["max_severity"] \in ALLOWED_SEVERITIES

MatchesDocumentSchema(d) ==
    /\ DOMAIN d = {"path", "decision", "intent_type", "severity", "confidence",
                   "reason", "required_actions", "frontmatter_patch",
                   "similar_docs"}
    /\ d["decision"] \in ALLOWED_DECISIONS
    /\ d["intent_type"] \in ALLOWED_INTENT_TYPES
    /\ d["severity"] \in ALLOWED_SEVERITIES
    /\ d["confidence"].kind \in {"int", "float"}
    /\ d["confidence"].val >= 0
    /\ d["confidence"].val <= 10

MatchesConflictSchema(c) ==
    /\ DOMAIN c = {"docs", "severity", "issue", "recommended_source_of_truth"}
    /\ c["severity"] \in ALLOWED_SEVERITIES

\* value is valid against build_output_schema().
MatchesOutputSchema(value) ==
    /\ value.json = "object"
    /\ DOMAIN value.v = AllTopLevelKeys
    /\ MatchesGlobalSchema(value.v["global"])
    /\ \A i \in 1..Len(value.v["documents"]) :
          MatchesDocumentSchema(value.v["documents"][i])
    /\ \A i \in 1..Len(value.v["cross_doc_conflicts"]) :
          MatchesConflictSchema(value.v["cross_doc_conflicts"][i])

(***************************************************************************)
(* The judging service                                                     *)
(***************************************************************************)

\* Faulty variant of call_openai_compatible: an answer without choices yields
\* an empty object instead of raising.
call_openai_compatible_lenient(reply) ==
    IF reply.kind = "content-json"
    THEN [raised |-> FALSE, value |-> reply.content]
    ELSE IF reply.kind = "no-choices"
    THEN [raised |-> FALSE, value |-> [json |-> "object", v |-> << >>]]
    ELSE [raised |-> TRUE, value |-> [json |-> "unset", v |-> << >>]]

\* call_openai_compatible, by what the service answers: the value returned,
\* or raised when an exception leaves the function.
call_openai_compatible(reply) ==
    CASE reply.kind = "http-error" ->        \* HTTPError -> RuntimeError
            [raised |-> TRUE, value |-> NoJson]
      [] reply.kind = "url-error" ->         \* URLError -> RuntimeError
            [raised |-> TRUE, value |-> NoJson]
      [] reply.kind = "timeout" ->           \* socket timeout while reading
            [raised |-> TRUE, value |-> NoJson]
      [] reply.kind = "body-not-json" ->     \* json.loads(raw) raises
            [raised |-> TRUE, value |-> NoJson]
      [] reply.kind = "no-choices" ->        \* RuntimeError
            [raised |-> TRUE, value |-> NoJson]
      [] reply.kind = "content-not-json" ->  \* extract_json_from_text raises
            [raised |-> TRUE, value |-> NoJson]
      [] reply.kind = "no-content" ->        \* RuntimeError
            [raised |-> TRUE, value |-> NoJson]
      [] reply.kind = "content-json" ->      \* extract_json_from_text returns
            [raised |-> FALSE, value |-> reply.content]

(***************************************************************************)
(* State of one run of main()                                              *)
(***************************************************************************)

VARIABLES
    call,             \* the last function called on its own, with its result
    pc,               \* where main() stands
    args,             \* the command-line options main() has read so far
    changed,          \* git_changed_docs(base, head), with each file's state
    docs,             \* collect_docs(...)
    policy_findings,  \* collect_policy_findings(docs)
    artifacts,        \* the artifacts written: "packet", "prompt", "llm-output"
    log,              \* the lines printed, in order
    worst_policy,     \* worst_policy_severity(policy_findings), once computed
    service_calls,    \* requests sent to the judging service
    service_reply,    \* what the service answered
    llm_output_path,  \* the judge output file to evaluate; "" for none
    model_output,     \* the judge output read from that file
    validation_errors,\* validate_model_output(model_output)
    worst,            \* the judge aggregate, once computed
    outcome           \* "running", "pass" (exit status 0) or "fail" (non-zero)

run_vars ==
    <<pc, args, changed, docs, policy_findings, artifacts, log, worst_policy,
      service_calls, service_reply, llm_output_path, model_output,
      validation_errors, worst, outcome>>

vars == <<call, run_vars>>

Idle == [op |-> "idle"]

\* The state before main() has done anything.
RunVarsAtStart ==
    /\ args = << >>
    /\ changed = << >>
    /\ docs = << >>
    /\ policy_findings = << >>
    /\ artifacts = {}
    /\ log = << >>
    /\ worst_policy = None
    /\ service_calls = 0
    /\ service_reply = NoReply
    /\ llm_output_path = ""
    /\ model_output = NoJson
    /\ validation_errors = << >>
    /\ worst = None
    /\ outcome = "running"

\* print(...), one record per line
Printed(lines) == log' = log \o lines

\* sys.exit(1), or an exception that leaves main()
Exit(status) == /\ pc' = "exited"
                /\ outcome' = status

\* An option of the command line is fixed for the run; its value is chosen
\* where main() first reads it and kept in args.
ReadOptions(options) == args' = args @@ options

(***************************************************************************)
(* collect_docs                                                            *)
(***************************************************************************)

\* One record per readable entry among the first max_docs; body-derived
\* members (title, claims, excerpt) are not read by any gate.
RECURSIVE CollectFrom(_)
CollectFrom(entries) ==
    IF entries = << >> THEN << >>
    ELSE LET e == Head(entries)
         IN  (IF ~e.exists THEN << >>
              ELSE <<[path |-> e.path,
                      change_type |-> e.status,
                      has_frontmatter |-> e.frontmatter # << >>,
                      frontmatter |-> e.frontmatter,
                      policy |-> evaluate_path_policy(e.path, e.frontmatter)]>>)
             \o CollectFrom(Tail(entries))

\* changed[:max_docs] for max_docs >= 0
Prefix(list, n) == SubSeq(list, 1, IF n < Len(list) THEN n ELSE Len(list))

\* Faulty variant of collect_docs: the cap counts the records, not the entries.
collect_docs_cap_on_records(changed_list, max_docs) ==
    Prefix(CollectFrom(changed_list), max_docs)

collect_docs(changed_list, max_docs) == CollectFrom(Prefix(changed_list, max_docs))

(***************************************************************************)
(* main()                                                                  *)
(***************************************************************************)

\* The "::warning" line printed for each policy finding.
FindingLines(findings) ==
    [i \in 1..Len(findings) |->
        [ev |-> "finding", path |-> findings[i].path,
         severity |-> findings[i].severity, status |-> findings[i].status,
         reason |-> findings[i].reason]]

\* git diff fails: run_git raises RuntimeError, which nothing catches.
GitFails ==
    /\ pc = "start"
    /\ Printed(<<[ev |-> "traceback"]>>)
    /\ Exit("fail")
    /\ UNCHANGED <<call, args, changed, docs, policy_findings, artifacts,
                   worst_policy, service_calls, service_reply, llm_output_path,
                   model_output, validation_errors, worst>>

\* Collect the changed documents, build the packet, write packet and prompt,
\* print the counts and every policy finding.
Prepare ==
    /\ pc = "start"
    /\ \E max_docs \in MaxDocsInputs,
          changed_list \in SeqsUpTo(ChangedInputs, MaxChanged) :
        LET collected == collect_docs(changed_list, max_docs)
            findings == collect_policy_findings(collected)
        IN  /\ ReadOptions("max_docs" :> max_docs)
            /\ changed' = changed_list
            /\ docs' = collected
            /\ policy_findings' = findings
            /\ artifacts' = artifacts \cup {"packet", "prompt"}
            /\ Printed(<<[ev |-> "wrote-packet"], [ev |-> "wrote-prompt"],
                         [ev |-> "changed-count", n |-> Len(changed_list)],
                         [ev |-> "docs-count", n |-> Len(collected)]>>
                       \o (IF findings # << >>
                           THEN <<[ev |-> "findings-count", n |-> Len(findings)]>>
                                \o FindingLines(findings)
                           ELSE << >>))
    /\ pc' = "policy-gate"
    /\ UNCHANGED <<call, worst_policy, service_calls, service_reply,
                   llm_output_path, model_output, validation_errors, worst,
                   outcome>>

\* Faulty variant of PolicyGate: the policy gate is evaluated whether or not
\* --enforce-policy is given.
PolicyGateUnconditional ==
    /\ pc = "policy-gate"
    /\ \E enforce_policy \in BOOLEAN, policy_fail_on \in SeverityChoices :
        LET aggregate == worst_policy_severity(policy_findings)
        IN  /\ ReadOptions("enforce_policy" :> enforce_policy
                           @@ "policy_fail_on" :> policy_fail_on)
            /\ worst_policy' = aggregate
            /\ IF should_fail(aggregate, policy_fail_on)
               THEN /\ Printed(<<[ev |-> "worst-policy", worst |-> aggregate],
                                 [ev |-> "policy-failed",
                                  threshold |-> policy_fail_on,
                                  worst |-> aggregate]>>)
                    /\ Exit("fail")
               ELSE /\ Printed(<<[ev |-> "worst-policy", worst |-> aggregate]>>)
                    /\ pc' = "provider"
                    /\ UNCHANGED outcome
    /\ UNCHANGED <<call, changed, docs, policy_findings, artifacts,
                   service_calls, service_reply, llm_output_path, model_output,
                   validation_errors, worst>>

\* Faulty variant of PolicyGate: a failed policy gate is reported, and the run
\* goes on to the judging.
PolicyGateDeferred ==
    /\ pc = "policy-gate"
    /\ \E enforce_policy \in BOOLEAN :
        IF ~enforce_policy
        THEN /\ ReadOptions("enforce_policy" :> enforce_policy)
             /\ UNCHANGED <<worst_policy, log>>
        ELSE \E policy_fail_on \in SeverityChoices :
             LET aggregate == worst_policy_severity(policy_findings)
             IN  /\ ReadOptions("enforce_policy" :> enforce_policy
                                @@ "policy_fail_on" :> policy_fail_on)
                 /\ worst_policy' = aggregate
                 /\ IF should_fail(aggregate, policy_fail_on)
                    THEN Printed(<<[ev |-> "worst-policy", worst |-> aggregate],
                                   [ev |-> "policy-failed",
                                    threshold |-> policy_fail_on,
                                    worst |-> aggregate]>>)
                    ELSE Printed(<<[ev |-> "worst-policy", worst |-> aggregate]>>)
    /\ pc' = "provider"
    /\ UNCHANGED <<call, changed, docs, policy_findings, artifacts,
                   service_calls, service_reply, llm_output_path, model_output,
                   validation_errors, worst, outcome>>

\* if args.enforce_policy: ...
PolicyGate ==
    /\ pc = "policy-gate"
    /\ \E enforce_policy \in BOOLEAN :
        IF ~enforce_policy
        THEN /\ ReadOptions("enforce_policy" :> enforce_policy)
             /\ pc' = "provider"
             /\ UNCHANGED <<worst_policy, log, outcome>>
        ELSE \E policy_fail_on \in SeverityChoices :
             LET aggregate == worst_policy_severity(policy_findings)
             IN  /\ ReadOptions("enforce_policy" :> enforce_policy
                                @@ "policy_fail_on" :> policy_fail_on)
                 /\ worst_policy' = aggregate
                 /\ IF should_fail(aggregate, policy_fail_on)
                    THEN /\ Printed(<<[ev |-> "worst-policy", worst |-> aggregate],
                                      [ev |-> "policy-failed",
                                       threshold |-> policy_fail_on,
                                       worst |-> aggregate]>>)
                         /\ Exit("fail")
                    ELSE /\ Printed(<<[ev |-> "worst-policy", worst |-> aggregate]>>)
                         /\ pc' = "provider"
                         /\ UNCHANGED outcome
    /\ UNCHANGED <<call, changed, docs, policy_findings, artifacts,
                   service_calls, service_reply, llm_output_path, model_output,
                   validation_errors, worst>>

\* Faulty variant of KeyMissing: an empty key is sent like any other.
KeyMissingIgnored(openai_api_key) == FALSE

\* if not args.openai_api_key:
KeyMissing(openai_api_key) == openai_api_key = ""

\* llm_output_path = args.llm_output; if args.run_openai: ...
Provider ==
    /\ pc = "provider"
    /\ \E llm_output \in LlmOutputInputs, run_openai \in BOOLEAN :
        IF ~run_openai
        THEN /\ ReadOptions("llm_output" :> llm_output
                            @@ "run_openai" :> run_openai)
             /\ llm_output_path' = llm_output
             /\ pc' = "load"
             /\ UNCHANGED <<artifacts, log, service_calls, service_reply,
                            model_output, outcome>>
        ELSE \E openai_api_key \in ApiKeyInputs :
             IF KeyMissing(openai_api_key)
             THEN \E allow_missing_openai_key \in BOOLEAN :
                  /\ ReadOptions("llm_output" :> llm_output
                                 @@ "run_openai" :> run_openai
                                 @@ "openai_api_key" :> openai_api_key
                                 @@ "allow_missing_openai_key"
                                    :> allow_missing_openai_key)
                  /\ llm_output_path' = llm_output
                  /\ IF allow_missing_openai_key
                     THEN /\ Printed(<<[ev |-> "warning-key-missing"]>>)
                          /\ Exit("pass")
                     ELSE /\ Printed(<<[ev |-> "error-key-missing"]>>)
                          /\ Exit("fail")
                  /\ UNCHANGED <<artifacts, service_calls, service_reply,
                                 model_output>>
             ELSE \E reply \in ServiceReplies :
                  LET returned == call_openai_compatible(reply)
                  IN  /\ ReadOptions("llm_output" :> llm_output
                                     @@ "run_openai" :> run_openai
                                     @@ "openai_api_key" :> openai_api_key)
                      /\ service_calls' = service_calls + 1
                      /\ service_reply' = reply
                      /\ IF returned.raised
                         THEN /\ Printed(<<[ev |-> "error-call-failed"]>>)
                              /\ Exit("fail")
                              /\ llm_output_path' = llm_output
                              /\ UNCHANGED <<artifacts, model_output>>
                         ELSE /\ llm_output_path' =
                                    (IF llm_output = ""
                                     THEN ".artifacts/docs_semantic_review_result.json"
                                     ELSE llm_output)
                              /\ model_output' = returned.value
                              /\ artifacts' = artifacts \cup {"llm-output"}
                              /\ Printed(<<[ev |-> "wrote-llm-output"]>>)
                              /\ pc' = "load"
                              /\ UNCHANGED outcome
    /\ UNCHANGED <<call, changed, docs, policy_findings, worst_policy,
                   validation_errors, worst>>

\* if not llm_output_path: return; else read the judge output file.  The file
\* holds what this run wrote, if it wrote it, and anything otherwise.
LoadOutput ==
    /\ pc = "load"
    /\ IF llm_output_path = ""
       THEN /\ Exit("pass")
            /\ UNCHANGED <<log, model_output>>
       ELSE \E file \in IF "llm-output" \in artifacts
                        THEN {[state |-> "json", content |-> model_output]}
                        ELSE FileInputs :
            CASE file.state = "missing" ->
                    /\ Printed(<<[ev |-> "error-file-not-found"]>>)
                    /\ Exit("fail")
                    /\ UNCHANGED model_output
              [] file.state = "not-json" ->
                    /\ Printed(<<[ev |-> "error-invalid-json"]>>)
                    /\ Exit("fail")
                    /\ UNCHANGED model_output
              [] file.state = "json" ->
                    /\ model_output' = file.content
                    /\ pc' = "validate"
                    /\ UNCHANGED <<log, outcome>>
    /\ UNCHANGED <<call, args, changed, docs, policy_findings, artifacts,
                   worst_policy, service_calls, service_reply, llm_output_path,
                   validation_errors, worst>>

\* Faulty variant of ValidationFails: only a missing top-level member is fatal.
ValidationFailsOnMissingKey(errors) ==
    \E i \in 1..Len(errors) : errors[i].msg = "missing top-level key"

\* if validation_errors:
ValidationFails(errors) == errors # << >>

\* validation_errors = validate_model_output(model_output); a value that is
\* no object has no get(): AttributeError, which nothing catches.
Validate ==
    /\ pc = "validate"
    /\ IF model_output.json # "object"
       THEN /\ Printed(<<[ev |-> "traceback"]>>)
            /\ Exit("fail")
            /\ UNCHANGED validation_errors
       ELSE LET errors == validate_model_output(model_output.v)
            IN  /\ validation_errors' = errors
                /\ IF ValidationFails(errors)
                   THEN /\ Printed([i \in 1..Len(errors) |->
                                       [ev |-> "error-invalid-output",
                                        error |-> errors[i]]])
                        /\ Exit("fail")
                   ELSE /\ pc' = "judge-gate"
                        /\ UNCHANGED <<log, outcome>>
    /\ UNCHANGED <<call, args, changed, docs, policy_findings, artifacts,
                   worst_policy, service_calls, service_reply, llm_output_path,
                   model_output, worst>>

\* The lines printed when the judge gate fails: the summary, then every
\* blocking reason.
BlockingLines(output) ==
    LET global_block == Get(output, "global", << >>)
        reasons == Get(global_block, "blocking_reasons", << >>)
    IN  <<[ev |-> "judge-failed",
           summary |-> Get(global_block, "summary", "semantic docs review failed")]>>
        \o [i \in 1..Len(reasons) |->
               [ev |-> "blocking-reason", reason |-> reasons[i]]]

\* Faulty variant of JudgeGate: the policy aggregate is merged into the judge
\* aggregate before the one comparison.
JudgeGateMerged ==
    /\ pc = "judge-gate"
    /\ \E min_confidence \in ConfidenceFloors, fail_on \in SeverityChoices :
        LET judged == max_observed_severity_with_confidence(
                          model_output.v, min_confidence)
            merged == worst_policy_severity(
                          policy_findings \o <<[severity |-> judged]>>)
        IN  /\ ReadOptions("min_confidence" :> min_confidence
                           @@ "fail_on" :> fail_on)
            /\ worst' = merged
            /\ IF should_fail(merged, fail_on)
               THEN /\ Printed(<<[ev |-> "llm-max-severity", worst |-> merged]>>
                              \o BlockingLines(model_output.v))
                    /\ Exit("fail")
               ELSE /\ Printed(<<[ev |-> "llm-max-severity", worst |-> merged]>>)
                    /\ Exit("pass")
    /\ UNCHANGED <<call, changed, docs, policy_findings, artifacts,
                   worst_policy, service_calls, service_reply, llm_output_path,
                   model_output, validation_errors>>

\* worst = max_observed_severity_with_confidence(...); should_fail(worst, ...)
JudgeGate ==
    /\ pc = "judge-gate"
    /\ \E min_confidence \in ConfidenceFloors, fail_on \in SeverityChoices :
        LET aggregate == max_observed_severity_with_confidence(
                             model_output.v, min_confidence)
        IN  /\ ReadOptions("min_confidence" :> min_confidence
                           @@ "fail_on" :> fail_on)
            /\ worst' = aggregate
            /\ IF should_fail(aggregate, fail_on)
               THEN /\ Printed(<<[ev |-> "llm-max-severity", worst |-> aggregate]>>
                              \o BlockingLines(model_output.v))
                    /\ Exit("fail")
               ELSE /\ Printed(<<[ev |-> "llm-max-severity", worst |-> aggregate]>>)
                    /\ Exit("pass")
    /\ UNCHANGED <<call, changed, docs, policy_findings, artifacts,
                   worst_policy, service_calls, service_reply, llm_output_path,
                   model_output, validation_errors>>

Init ==
    /\ call = Idle
    /\ pc = "start"
    /\ RunVarsAtStart

Next ==
    \/ GitFails
    \/ Prepare
    \/ PolicyGate
    \/ Provider
    \/ LoadOutput
    \/ Validate
    \/ JudgeGate

Spec == Init /\ [][Next]_vars

(***************************************************************************)
(* Each function called once, on its own, on any input                     *)
(***************************************************************************)

CallShouldFail ==
    /\ pc = "calls"
    /\ call = Idle
    /\ \E aggregate \in ALLOWED_SEVERITIES, threshold \in ALLOWED_SEVERITIES :
        call' = [op |-> "should_fail", worst |-> aggregate,
                 threshold |-> threshold,
                 result |-> should_fail(aggregate, threshold)]
    /\ UNCHANGED run_vars

CallWorstPolicySeverity ==
    /\ pc = "calls"
    /\ call = Idle
    /\ \E findings \in SeqsUpTo(FindingInputs, MaxFindings) :
        call' = [op |-> "worst_policy_severity", findings |-> findings,
                 result |-> worst_policy_severity(findings)]
    /\ UNCHANGED run_vars

CallValidateModelOutput ==
    /\ pc = "calls"
    /\ call = Idle
    /\ \E present \in SUBSET AllTopLevelKeys :
       \E global_block \in
              IF "global" \in present
              THEN ValidatorGlobals ELSE {GlobalBlock(Absent, TRUE)},
          documents \in
              IF "documents" \in present
              THEN SeqsUpTo(ValidatorDocuments, MaxJudgeDocs) ELSE {<< >>},
          conflicts \in
              IF "cross_doc_conflicts" \in present
              THEN SeqsUpTo(ValidatorConflicts, MaxConflicts) ELSE {<< >>} :
        LET output ==
                JudgeOutput(present, global_block, documents, conflicts)
        IN  call' = [op |-> "validate_model_output",
                     model_output |-> output,
                     result |-> validate_model_output(output)]
    /\ UNCHANGED run_vars

CallMaxObservedSeverity ==
    /\ pc = "calls"
    /\ call = Idle
    /\ \E global_block \in {GlobalBlock(s, TRUE) : s \in ALLOWED_SEVERITIES},
          documents \in SeqsUpTo(AggregatorDocuments, MaxJudgeDocs),
          conflicts \in SeqsUpTo(AggregatorConflicts, MaxConflicts),
          min_confidence \in ConfidenceFloors :
        LET output ==
                JudgeOutput(AllTopLevelKeys, global_block, documents, conflicts)
        IN  /\ validate_model_output(output) = << >>
            /\ call' = [op |-> "max_observed_severity_with_confidence",
                        model_output |-> output,
                        min_confidence |-> min_confidence,
                        result |-> max_observed_severity_with_confidence(
                                       output, min_confidence)]
    /\ UNCHANGED run_vars

CallEvaluatePathPolicy ==
    /\ pc = "calls"
    /\ call = Idle
    /\ \E path \in PathInputs, frontmatter \in FrontmatterInputs :
        call' = [op |-> "evaluate_path_policy", path |-> path,
                 frontmatter |-> frontmatter,
                 result |-> evaluate_path_policy(path, frontmatter)]
    /\ UNCHANGED run_vars

\* Lines of a document: the marker line, a line that begins with the marker,
\* an empty line, a key with a quoted value, a line without colon, a comment.
TextLineInputs ==
    {<<"-", "-", "-">>,
     <<"-", "-", "-", "-", "-", "-">>,
     << >>,
     <<"k", ":", " ", "'", "v", "'">>,
     <<"x">>,
     <<"#", "c">>}

\* Most lines of a document text.
MaxLines == 5

\* "\n".join(lines)
RECURSIVE JoinLines(_)
JoinLines(lines) ==
    IF lines = << >> THEN << >>
    ELSE IF Len(lines) = 1 THEN Head(lines)
    ELSE Head(lines) \o <<"\n">> \o JoinLines(Tail(lines))

\* Document texts: up to MaxLines lines, with or without a final newline.
TextInputs ==
    {JoinLines(lines) \o ending :
        lines \in SeqsUpTo(TextLineInputs, MaxLines),
        ending \in {<< >>, <<"\n">>}}

\* The pattern tuples of the policy table.
PatternInputs ==
    {DOC_TYPE_PATH_POLICY[t].preferred : t \in DOMAIN DOC_TYPE_PATH_POLICY}
    \cup {DOC_TYPE_PATH_POLICY[t].allowed : t \in DOMAIN DOC_TYPE_PATH_POLICY}

CallPathMatches ==
    /\ pc = "calls"
    /\ call = Idle
    /\ \E path \in PathInputs, patterns \in PatternInputs :
        call' = [op |-> "path_matches", path |-> path, patterns |-> patterns,
                 result |-> path_matches(path, patterns)]
    /\ UNCHANGED run_vars

\* Lines of docs/northstar.md: headings of the allow-list and outside it, of
\* level two and of other levels, and bullet items.
GoalLineInputs ==
    {
      \* '## Core Goals'
      <<"#", "#", " ", "C", "o", "r", "e", " ", "G", "o", "a", "l", "s">>,
      \* '## execution priority (current)'
      <<"#", "#", " ", "e", "x", "e", "c", "u", "t", "i", "o", "n", " ", "p", "r", "i", "o", "r", "i", "t", "y", " ", "(", "c", "u", "r", "r", "e", "n", "t", ")">>,
      \* '## Notes'
      <<"#", "#", " ", "N", "o", "t", "e", "s">>,
      \* '# Top'
      <<"#", " ", "T", "o", "p">>,
      \* '### Sub'
      <<"#", "#", "#", " ", "S", "u", "b">>,
      \* '- a'
      <<"-", " ", "a">>,
      \* '  - b '
      <<" ", " ", "-", " ", "b", " ">>
    }

\* Most lines of docs/northstar.md.
MaxGoalLines == 4

NorthstarInputs ==
    {[exists |-> FALSE, text |-> << >>]}
    \cup {[exists |-> TRUE, text |-> JoinLines(lines) \o <<"\n">>] :
             lines \in SeqsUpTo(GoalLineInputs, MaxGoalLines)}

CallLoadNorthstarGoals ==
    /\ pc = "calls"
    /\ call = Idle
    /\ \E file \in NorthstarInputs :
        call' = [op |-> "load_northstar_goals", file |-> file,
                 result |-> load_northstar_goals(file)]
    /\ UNCHANGED run_vars

\* Most characters of a document body.
MaxBodyChars == 5

\* Bodies: letters, spaces and newlines.
BodyInputs == UNION {[1..n -> {"a", "b", " ", "\n"}] : n \in 0..MaxBodyChars}

\* --max-body-chars: from 0 to more than any body has.
MaxCharsInputs == 0..(MaxBodyChars + 1)

CallSummarizeBody ==
    /\ pc = "calls"
    /\ call = Idle
    /\ \E body \in BodyInputs, max_chars \in MaxCharsInputs :
        call' = [op |-> "summarize_body", body |-> body,
                 max_chars |-> max_chars,
                 result |-> summarize_body(body, max_chars)]
    /\ UNCHANGED run_vars

CallParseFrontmatter ==
    /\ pc = "calls"
    /\ call = Idle
    /\ \E text \in TextInputs :
        call' = [op |-> "parse_frontmatter", text |-> text,
                 result |-> parse_frontmatter(text)]
    /\ UNCHANGED run_vars

InitCalls ==
    /\ call = Idle
    /\ pc = "calls"
    /\ RunVarsAtStart

NextCalls ==
    \/ CallShouldFail
    \/ CallWorstPolicySeverity
    \/ CallValidateModelOutput
    \/ CallMaxObservedSeverity
    \/ CallEvaluatePathPolicy
    \/ CallParseFrontmatter
    \/ CallPathMatches
    \/ CallLoadNorthstarGoals
    \/ CallSummarizeBody

SpecCalls == InitCalls /\ [][NextCalls]_vars

(***************************************************************************)
(* Properties                                                              *)
(*                                                                         *)
(* The properties restate the documented rules on their own terms: the     *)
(* severity rank, the maximum and the comparison with the floor are        *)
(* defined here once more, not taken from the operators above.             *)
(***************************************************************************)

\* none = 0 < minor = 1 < major = 2 < critical = 3
Rank(s) ==
    CASE s = "none" -> 0
      [] s = "minor" -> 1
      [] s = "major" -> 2
      [] s = "critical" -> 3

\* fail iff threshold != none and rank(aggregate) >= rank(threshold)
Meets(aggregate, threshold) ==
    threshold # "none" /\ Rank(aggregate) >= Rank(threshold)

\* The highest-ranked severity of a non-empty set.
Highest(S) == CHOOSE s \in S : \A t \in S : Rank(t) <= Rank(s)

\* C1: should_fail(aggregate, threshold) is true if and only if threshold is
\* not none and rank(aggregate) >= rank(threshold); for a fixed threshold the
\* result never goes from fail to pass as the aggregate's rank increases.
C1_ShouldFailRule ==
    call.op = "should_fail" =>
        /\ call.result = Meets(call.worst, call.threshold)
        /\ call.result =>
              \A higher \in SeverityChoices :
                  Rank(higher) >= Rank(call.worst) =>
                      should_fail(higher, call.threshold)

C1_Witness ==
    /\ call.op = "should_fail"
    /\ call.worst = "major"
    /\ call.threshold = "major"
    /\ call.result = TRUE

\* C5: worst_policy_severity returns the highest-ranked severity over all
\* policy findings under none < minor < major < critical (not the lexical
\* order of the names), and none when there are no findings.
C5_WorstPolicyIsNumericMax ==
    call.op = "worst_policy_severity" =>
        LET severities ==
                {call.findings[i].severity : i \in 1..Len(call.findings)}
        IN  IF severities = {}
            THEN call.result = "none"
            ELSE /\ call.result \in severities
                 /\ \A s \in severities : Rank(s) <= Rank(call.result)

C5_Witness ==
    /\ call.op = "worst_policy_severity"
    /\ call.findings = <<[severity |-> "minor"], [severity |-> "major"]>>
    /\ call.result = "major"

\* The number a confidence stands for is at least the floor (no number is
\* compared with NaN; true counts as 1, as Python compares it).
ConfidenceAtLeast(conf, floor) == conf.kind # "nan" /\ conf.val >= floor

ConfidenceBelow(conf, floor) == conf.kind # "nan" /\ conf.val < floor

\* global.max_severity, every conflict severity, and the severity of every
\* document entry whose confidence is at least the floor.
Contributing(output, floor) ==
    {output["global"]["max_severity"]}
    \cup {output["cross_doc_conflicts"][i]["severity"] :
             i \in 1..Len(output["cross_doc_conflicts"])}
    \cup {output["documents"][i]["severity"] :
             i \in {j \in 1..Len(output["documents"]) :
                       ConfidenceAtLeast(output["documents"][j]["confidence"],
                                         floor)}}

\* C3: for every validated judge output and every confidence floor,
\* max_observed_severity_with_confidence returns exactly the highest-ranked
\* severity among global.max_severity, the severity of every conflict and the
\* severity of every document entry whose confidence is at least the floor.
C3_JudgeAggregateIsFilteredMax ==
    call.op = "max_observed_severity_with_confidence" =>
        /\ call.result \in Contributing(call.model_output, call.min_confidence)
        /\ \A s \in Contributing(call.model_output, call.min_confidence) :
              Rank(s) <= Rank(call.result)

C3_Witness ==
    /\ call.op = "max_observed_severity_with_confidence"
    /\ call.min_confidence = 8
    /\ Len(call.model_output["documents"]) = 2
    /\ call.model_output["documents"][1]["severity"] = "critical"
    /\ call.model_output["documents"][1]["confidence"] = Float(5)
    /\ call.model_output["documents"][2]["severity"] = "major"
    /\ call.model_output["documents"][2]["confidence"] = Float(8)
    /\ call.model_output["global"]["max_severity"] = "none"
    /\ call.result = "major"

\* list without its i-th element
Without(list, i) == SubSeq(list, 1, i - 1) \o SubSeq(list, i + 1, Len(list))

\* C4: a document entry whose confidence is strictly below the floor is
\* excluded entirely: the aggregate with the entry equals the aggregate
\* without it; an entry whose confidence equals the floor is included: the
\* aggregate ranks at least as high as its severity.
C4_BelowFloorExcluded ==
    call.op = "max_observed_severity_with_confidence" =>
        \A i \in 1..Len(call.model_output["documents"]) :
            LET entry == call.model_output["documents"][i]
                others == [call.model_output EXCEPT
                              !["documents"] = Without(@, i)]
            IN  /\ ConfidenceBelow(entry["confidence"], call.min_confidence) =>
                      call.result = max_observed_severity_with_confidence(
                                        others, call.min_confidence)
                /\ (entry["confidence"].kind # "nan"
                    /\ entry["confidence"].val = call.min_confidence) =>
                      Rank(call.result) >= Rank(entry["severity"])

C4_Witness ==
    /\ call.op = "max_observed_severity_with_confidence"
    /\ call.min_confidence = 8
    /\ Len(call.model_output["documents"]) = 2
    /\ call.model_output["documents"][1]["severity"] = "critical"
    /\ call.model_output["documents"][1]["confidence"] = Float(5)
    /\ call.model_output["documents"][2]["severity"] = "minor"
    /\ call.model_output["documents"][2]["confidence"] = Float(8)
    /\ call.model_output["global"]["max_severity"] = "none"
    /\ call.model_output["cross_doc_conflicts"] = << >>
    /\ call.result = "minor"

\* doc_type is absent, empty or only whitespace
BlankDocType(frontmatter) ==
    \/ K_doc_type \notin DOMAIN frontmatter
    \/ \A i \in 1..Len(frontmatter[K_doc_type]) :
          frontmatter[K_doc_type][i] \in {" ", "\t", "\n", "\r"}

\* C10: for every path and every metadata mapping in which doc_type is
\* absent, empty or only whitespace, evaluate_path_policy returns status
\* missing-doc-type with severity major, whatever the path is.
C10_BlankDocTypeIsMissing ==
    (call.op = "evaluate_path_policy" /\ BlankDocType(call.frontmatter)) =>
        /\ call.result.status = "missing-doc-type"
        /\ call.result.severity = "major"
        /\ \A other \in PathInputs :
              evaluate_path_policy(other, call.frontmatter) = call.result

C10_Witness ==
    /\ call.op = "evaluate_path_policy"
    /\ K_doc_type \in DOMAIN call.frontmatter
    /\ call.frontmatter[K_doc_type] = <<" ", "\t">>
    /\ call.result.status = "missing-doc-type"

\* A confidence that is not a number in [0, 1]: a missing one, a string, a
\* boolean, NaN, a number below 0 or above 1.
NotAConfidence(doc) ==
    \/ "confidence" \notin DOMAIN doc
    \/ doc["confidence"].kind \notin {"int", "float"}
    \/ doc["confidence"].val < 0
    \/ doc["confidence"].val > 10

OutsideEnumeration(object, member, enumeration) ==
    member \notin DOMAIN object \/ object[member] \notin enumeration

\* The constraints of the validator that output violates, counted.
ViolationCount(output, IsBadConfidence(_)) ==
    LET documents == Get(output, "documents", << >>)
        conflicts == Get(output, "cross_doc_conflicts", << >>)
        BadMember(doc, member) ==
            CASE member = "severity" ->
                    OutsideEnumeration(doc, member, SeverityChoices)
              [] member = "decision" ->
                    OutsideEnumeration(doc, member, ALLOWED_DECISIONS)
              [] member = "intent_type" ->
                    OutsideEnumeration(doc, member, ALLOWED_INTENT_TYPES)
              [] member = "confidence" -> IsBadConfidence(doc)
    IN  Cardinality({k \in AllTopLevelKeys : k \notin DOMAIN output})
        + (IF OutsideEnumeration(Get(output, "global", << >>), "max_severity",
                                 SeverityChoices)
           THEN 1 ELSE 0)
        + Cardinality({x \in (1..Len(documents))
                             \X {"severity", "decision", "intent_type",
                                 "confidence"} :
                         BadMember(documents[x[1]], x[2])})
        + Cardinality({i \in 1..Len(conflicts) :
                         OutsideEnumeration(conflicts[i], "severity",
                                            SeverityChoices)})

\* An otherwise valid output that lacks only cross_doc_conflicts.
MissesOnlyConflicts(output) ==
    /\ DOMAIN output = AllTopLevelKeys \ {"cross_doc_conflicts"}
    /\ ViolationCount(output, NotAConfidence) = 1

\* C9: validate_model_output returns one violation for every violated
\* constraint, not only the first; the list is empty if and only if no
\* constraint is violated; an otherwise valid output missing only
\* cross_doc_conflicts yields exactly one violation naming that key.
C9_OneViolationPerConstraint ==
    call.op = "validate_model_output" =>
        /\ Len(call.result) = ViolationCount(call.model_output, NotAConfidence)
        /\ MissesOnlyConflicts(call.model_output) =>
              call.result = <<[msg |-> "missing top-level key",
                               key |-> "cross_doc_conflicts"]>>

\* What the validator takes for a bad confidence: as NotAConfidence, but a
\* boolean and NaN pass.
NotAConfidenceForPython(doc) ==
    \/ "confidence" \notin DOMAIN doc
    \/ doc["confidence"].kind \notin {"int", "float", "bool", "nan"}
    \/ (doc["confidence"].kind # "nan"
        /\ (doc["confidence"].val < 0 \/ doc["confidence"].val > 10))

\* C9, as far as it holds: one violation per violated constraint, where a
\* boolean or NaN confidence is not counted as a violation.
C9_ExceptBooleanAndNaN ==
    call.op = "validate_model_output" =>
        /\ Len(call.result)
             = ViolationCount(call.model_output, NotAConfidenceForPython)
        /\ (/\ DOMAIN call.model_output
                  = AllTopLevelKeys \ {"cross_doc_conflicts"}
            /\ ViolationCount(call.model_output, NotAConfidenceForPython) = 1) =>
              call.result = <<[msg |-> "missing top-level key",
                               key |-> "cross_doc_conflicts"]>>

\* The policy aggregate of the run: the highest severity over the packet's
\* documents, none without documents.
PolicyAggregate ==
    IF docs = << >> THEN "none"
    ELSE Highest({docs[i].policy.severity : i \in 1..Len(docs)})

\* The judge aggregate of the run, for the output read and the floor in use.
JudgeAggregate == Highest(Contributing(model_output.v, args["min_confidence"]))

JudgeGateEvaluated == worst # None

PolicyEnforced == "enforce_policy" \in DOMAIN args /\ args["enforce_policy"]

\* C2: with policy enforcement on and a valid judge output evaluated, the run
\* fails if and only if the policy aggregate meets the policy threshold or the
\* judge aggregate meets the judge threshold, each compared with its own
\* threshold only; it passes when both rank below their thresholds although
\* there are findings.
C2_EitherGateFailsTheRun ==
    (/\ pc = "exited"
     /\ PolicyEnforced
     /\ (JudgeGateEvaluated \/ Meets(PolicyAggregate, args["policy_fail_on"]))) =>
        (outcome = "fail" <=>
            \/ Meets(PolicyAggregate, args["policy_fail_on"])
            \/ (JudgeGateEvaluated /\ Meets(JudgeAggregate, args["fail_on"])))

C2_Witness ==
    /\ pc = "exited"
    /\ outcome = "pass"
    /\ PolicyEnforced
    /\ args["policy_fail_on"] = "major"
    /\ worst_policy = "minor"
    /\ policy_findings # << >>
    /\ JudgeGateEvaluated
    /\ args["fail_on"] = "critical"
    /\ worst = "major"

JudgeGateLines == {"llm-max-severity", "judge-failed", "blocking-reason"}

\* C6: if the validator returns a non-empty violation list, the run ends
\* failed and the judge aggregation and threshold check are never performed.
C6_InvalidOutputAbortsBeforeAggregation ==
    validation_errors # << >> =>
        /\ pc = "exited"
        /\ outcome = "fail"
        /\ worst = None
        /\ \A i \in 1..Len(log) : log[i].ev \notin JudgeGateLines

C6_Witness ==
    /\ validation_errors = <<[msg |-> "missing top-level key",
                              key |-> "cross_doc_conflicts"]>>
    /\ outcome = "fail"

\* HTTP failure, transport failure or timeout, malformed or non-JSON response.
ServiceCallFailed ==
    service_reply.kind \in {"http-error", "url-error", "timeout",
                            "body-not-json", "no-choices", "no-content",
                            "content-not-json"}

\* C7: the judging service is called at most once per run and a failed call
\* is never retried: the run ends failed, no Judge Output artifact is written
\* and no judge gate is evaluated.
C7_FailedCallIsFatal ==
    /\ service_calls <= 1
    /\ ServiceCallFailed =>
          /\ service_calls = 1
          /\ pc = "exited"
          /\ outcome = "fail"
          /\ "llm-output" \notin artifacts
          /\ model_output = NoJson
          /\ worst = None
          /\ \A i \in 1..Len(log) : log[i].ev \notin JudgeGateLines

C7_Witness ==
    /\ service_reply.kind = "timeout"
    /\ service_calls = 1
    /\ outcome = "fail"

\* C8: a judge response that violates the Judge Output schema is fatal for
\* the run: the run ends failed and the response is never gated.
C8_SchemaViolationIsFatal ==
    (/\ service_reply.kind = "content-json"
     /\ ~MatchesOutputSchema(service_reply.content)) =>
        /\ worst = None
        /\ pc = "exited" => outcome = "fail"

\* The document's type after normalization, and its entry in the policy table.
KnownDocType(frontmatter) ==
    /\ ~BlankDocType(frontmatter)
    /\ normalize_doc_type(frontmatter[K_doc_type]) \in DOMAIN DOC_TYPE_PATH_POLICY

PolicyOf(frontmatter) ==
    DOC_TYPE_PATH_POLICY[normalize_doc_type(frontmatter[K_doc_type])]

\* C11: for every document whose non-blank doc_type, after normalization, has
\* no entry in the policy table, evaluate_path_policy returns unknown-doc-type
\* with severity major, and the result is the same for every path.
C11_UnknownDocTypeWhateverThePath ==
    (/\ call.op = "evaluate_path_policy"
     /\ ~BlankDocType(call.frontmatter)
     /\ ~KnownDocType(call.frontmatter)) =>
        /\ call.result.status = "unknown-doc-type"
        /\ call.result.severity = "major"
        /\ \A other \in PathInputs :
              evaluate_path_policy(other, call.frontmatter) = call.result

C11_Witness ==
    /\ call.op = "evaluate_path_policy"
    /\ K_doc_type \in DOMAIN call.frontmatter
    /\ call.frontmatter[K_doc_type] = <<"b","o","g","u","s">>
    /\ call.result.status = "unknown-doc-type"

\* C12: for every document of a known type whose path matches at least one
\* preferred pattern of that type, evaluate_path_policy returns ok with
\* severity none, also when the path matches an allowed pattern as well.
C12_PreferredWinsOverAllowed ==
    (/\ call.op = "evaluate_path_policy"
     /\ KnownDocType(call.frontmatter)
     /\ path_matches(call.path, PolicyOf(call.frontmatter).preferred)) =>
        /\ call.result.status = "ok"
        /\ call.result.severity = "none"

C12_Witness ==
    /\ call.op = "evaluate_path_policy"
    /\ KnownDocType(call.frontmatter)
    /\ path_matches(call.path, PolicyOf(call.frontmatter).preferred)
    /\ path_matches(call.path, PolicyOf(call.frontmatter).allowed)
    /\ call.result.status = "ok"

\* C13: for every document of a known type whose path matches no preferred
\* pattern of that type, evaluate_path_policy returns placement-drift with
\* severity minor if the path matches at least one allowed pattern, and
\* placement-invalid with severity major otherwise.
C13_DriftOrInvalid ==
    (/\ call.op = "evaluate_path_policy"
     /\ KnownDocType(call.frontmatter)
     /\ ~path_matches(call.path, PolicyOf(call.frontmatter).preferred)) =>
        IF path_matches(call.path, PolicyOf(call.frontmatter).allowed)
        THEN /\ call.result.status = "placement-drift"
             /\ call.result.severity = "minor"
        ELSE /\ call.result.status = "placement-invalid"
             /\ call.result.severity = "major"

\* doc_type plan at docs/random/x.md is placement-invalid, at
\* docs/domains/a/x.md placement-drift.
C13_Witness ==
    /\ call.op = "evaluate_path_policy"
    /\ K_doc_type \in DOMAIN call.frontmatter
    /\ call.frontmatter[K_doc_type] = <<"p","l","a","n">>
    /\ call.path = <<"d","o","c","s","/","r","a","n","d","o","m","/","x",".","m","d">>
    /\ call.result.status = "placement-invalid"
    /\ evaluate_path_policy(
           <<"d","o","c","s","/","d","o","m","a","i","n","s","/","a","/","x",".","m","d">>,
           call.frontmatter).status = "placement-drift"

SeverityOfStatus ==
    [x \in {"missing-doc-type", "unknown-doc-type", "placement-invalid"} |-> "major"]
    @@ ("ok" :> "none") @@ ("placement-drift" :> "minor")

\* C14: evaluate_path_policy is total: for every path and metadata mapping it
\* returns one of the five statuses, and the severity is determined by the
\* status alone; severity is none if and only if the status is ok.
C14_StatusDeterminesSeverity ==
    call.op = "evaluate_path_policy" =>
        /\ call.result.status \in DOMAIN SeverityOfStatus
        /\ call.result.severity = SeverityOfStatus[call.result.status]
        /\ call.result.severity = "none" <=> call.result.status = "ok"

C14_Witness ==
    /\ call.op = "evaluate_path_policy"
    /\ call.result.status = "placement-drift"
    /\ call.result.severity = "minor"

\* Option name has been read by main() and has value v.
OptionIs(name, v) == name \in DOMAIN args /\ args[name] = v

\* No run of main() that reads option name would find a value other than v:
\* the run has not read it (and is the same for each value), or read v.
OptionMayBe(name, v) == name \in DOMAIN args => args[name] = v

\* main() got as far as collecting the documents and writing the packet.
DocumentsCollected == "packet" \in artifacts

\* C15: a run in which no judging is requested and no judge output is
\* supplied, and whose documents were collected, fails if and only if policy
\* enforcement is enabled and the policy aggregate meets the policy threshold;
\* without enforcement no policy finding fails the run.
C15_DecidedOnPolicyAlone ==
    (/\ pc = "exited"
     /\ DocumentsCollected
     /\ OptionMayBe("run_openai", FALSE)
     /\ OptionMayBe("llm_output", "")) =>
        (outcome = "fail" <=>
            (PolicyEnforced /\ Meets(PolicyAggregate, args["policy_fail_on"])))

C15_Witness ==
    /\ pc = "exited"
    /\ outcome = "pass"
    /\ OptionIs("enforce_policy", FALSE)
    /\ OptionIs("run_openai", FALSE)
    /\ OptionIs("llm_output", "")
    /\ \E i \in 1..Len(policy_findings) : policy_findings[i].severity = "major"

ConfigurationErrorReported ==
    \E i \in 1..Len(log) : log[i].ev = "error-key-missing"

\* C16: when judging is requested without credentials and without the
\* skip-allowed flag, the run exits non-zero before doing any work: no
\* documents collected, no packet or prompt written, no policy gate evaluated.
C16_ConfigurationErrorBeforeAnyWork ==
    (/\ OptionIs("run_openai", TRUE)
     /\ OptionIs("openai_api_key", "")
     /\ OptionIs("allow_missing_openai_key", FALSE)) =>
        /\ outcome = "fail"
        /\ ConfigurationErrorReported
        /\ artifacts = {}
        /\ docs = << >>
        /\ worst_policy = None
        /\ Len(log) = 1

VerdictLines == {"policy-failed", "judge-failed"}

\* Line i is printed before any verdict line.
BeforeVerdict(i) == \A j \in 1..i : log[j].ev \notin VerdictLines

PolicyFindingReported(finding) ==
    \E i \in 1..Len(log) :
        /\ log[i].ev = "finding"
        /\ log[i].path = finding.path
        /\ log[i].severity = finding.severity
        /\ log[i].reason = finding.reason
        /\ BeforeVerdict(i)

\* The findings of the judge output that was gated: the document entries
\* with a severity other than none.
JudgeFindings ==
    LET documents == Get(model_output.v, "documents", << >>)
    IN  {documents[i] : i \in {j \in 1..Len(documents) :
                                  documents[j]["severity"] # "none"}}

JudgeFindingReported(entry) ==
    \E i \in 1..Len(log) :
        /\ log[i].ev = "judge-finding"
        /\ log[i].path = Get(entry, "path", "")
        /\ log[i].severity = entry["severity"]
        /\ log[i].reason = Get(entry, "reason", "")
        /\ BeforeVerdict(i)

\* C18, the policy half: every policy finding is printed with its path,
\* severity and reason before any verdict, also in runs that pass.
C18_PolicyFindingsReported ==
    (pc = "exited" /\ DocumentsCollected) =>
        \A i \in 1..Len(policy_findings) :
            PolicyFindingReported(policy_findings[i])

\* C18: in every run every violation, policy finding or judge-reported
\* finding, is reported individually with its path, severity and reason
\* before any verdict, also when it is below the threshold and the run passes.
C18_EveryViolationReported ==
    (pc = "exited" /\ DocumentsCollected) =>
        /\ \A i \in 1..Len(policy_findings) :
              PolicyFindingReported(policy_findings[i])
        /\ JudgeGateEvaluated =>
              \A entry \in JudgeFindings : JudgeFindingReported(entry)

\* The text does not begin with the opening marker line.
NoOpeningMarker(text) ==
    ~(/\ Len(text) >= 4
      /\ text[1] = "-" /\ text[2] = "-" /\ text[3] = "-" /\ text[4] = "\n")

\* No line after the opening marker line begins with the closing marker.
NoClosingMarker(text) ==
    \A i \in 5..(Len(text) - 3) :
        ~(text[i] = "\n" /\ text[i + 1] = "-" /\ text[i + 2] = "-"
          /\ text[i + 3] = "-")

\* C19: for every text that does not begin with the opening marker, and for
\* every text that begins with it but has no closing marker before the end,
\* parse_frontmatter returns an empty mapping and the original text as body.
C19_FailsOpen ==
    (/\ call.op = "parse_frontmatter"
     /\ (NoOpeningMarker(call.text) \/ NoClosingMarker(call.text))) =>
        call.result = << << >>, call.text >>

C19_Witness ==
    /\ call.op = "parse_frontmatter"
    /\ call.text = <<"-", "-", "-", "\n", "k", ":", " ", "'", "v", "'", "\n", "x">>
    /\ call.result[1] = << >>

\* C20: for every document text, parse_frontmatter applied to the body
\* returned by a previous application returns an empty mapping.
C20_Idempotent ==
    call.op = "parse_frontmatter" =>
        parse_frontmatter(call.result[2])[1] = << >>

\* The severities that count whatever the floor: global.max_severity and the
\* severity of every conflict.
FloorIndependent(output) ==
    {output["global"]["max_severity"]}
    \cup {output["cross_doc_conflicts"][i]["severity"] :
             i \in 1..Len(output["cross_doc_conflicts"])}

\* C21: for every validated judge output and every floor, a floor above 1
\* included, the judge aggregate ranks at least as high as global.max_severity
\* and as every conflict severity, and it still does at every higher floor.
C21_ConflictsCountWhateverTheFloor ==
    call.op = "max_observed_severity_with_confidence" =>
        \A s \in FloorIndependent(call.model_output) :
            /\ Rank(call.result) >= Rank(s)
            /\ \A higher \in ConfidenceFloors :
                  higher >= call.min_confidence =>
                      Rank(max_observed_severity_with_confidence(
                               call.model_output, higher)) >= Rank(s)

C21_Witness ==
    /\ call.op = "max_observed_severity_with_confidence"
    /\ call.min_confidence = 11
    /\ call.model_output["global"]["max_severity"] = "none"
    /\ Len(call.model_output["documents"]) = 1
    /\ call.model_output["documents"][1]["severity"] = "minor"
    /\ Len(call.model_output["cross_doc_conflicts"]) = 1
    /\ call.model_output["cross_doc_conflicts"][1]["severity"] = "critical"
    /\ call.result = "critical"

\* The raw doc_type of a mapping, and its value trimmed, lowercased and then
\* mapped through the alias table.
DocTypeOf(frontmatter) == Get(frontmatter, K_doc_type, << >>)

Canonical(raw) ==
    LET trimmed == lower(strip(raw))
    IN  IF trimmed \in DOMAIN DOC_TYPE_ALIASES
        THEN DOC_TYPE_ALIASES[trimmed] ELSE trimmed

\* C22: two documents at the same path whose doc_type values have the same
\* normalized value (they differ only in letter case, surrounding whitespace
\* or by being an alias) get the same status and severity; normalization is
\* idempotent and every alias target has an entry in the policy table.
C22_DependsOnNormalizedTypeOnly ==
    call.op = "evaluate_path_policy" =>
        /\ \A other \in FrontmatterInputs :
              Canonical(DocTypeOf(other)) = Canonical(DocTypeOf(call.frontmatter)) =>
                  LET result == evaluate_path_policy(call.path, other)
                  IN  /\ result.status = call.result.status
                      /\ result.severity = call.result.severity
        /\ normalize_doc_type(normalize_doc_type(DocTypeOf(call.frontmatter)))
              = normalize_doc_type(DocTypeOf(call.frontmatter))
        /\ \A alias \in DOMAIN DOC_TYPE_ALIASES :
              DOC_TYPE_ALIASES[alias] \in DOMAIN DOC_TYPE_PATH_POLICY

\* 'Implementation-Plan' at docs/plans/x.md is judged as plan is.
C22_Witness ==
    /\ call.op = "evaluate_path_policy"
    /\ DocTypeOf(call.frontmatter)
          = <<"I","m","p","l","e","m","e","n","t","a","t","i","o","n","-","P","l","a","n">>
    /\ call.path = <<"d","o","c","s","/","p","l","a","n","s","/","x",".","m","d">>
    /\ call.result.status = "ok"
    /\ call.result.normalized_doc_type = <<"p","l","a","n">>

\* Matching with segment wildcards: "**" matches any run of characters, "*"
\* alone any run without "/", every other character itself, case included.
\* SegmentMatchFrom(name, pat, i, j): name[i..] matches pat[j..].
RECURSIVE SegmentMatchFrom(_, _, _, _)
SegmentMatchFrom(name, pat, i, j) ==
    IF j > Len(pat) THEN i > Len(name)
    ELSE IF pat[j] = "*" /\ j < Len(pat) /\ pat[j + 1] = "*"
         THEN \/ SegmentMatchFrom(name, pat, i, j + 2)
              \/ (i <= Len(name) /\ SegmentMatchFrom(name, pat, i + 1, j))
    ELSE IF pat[j] = "*"
         THEN \/ SegmentMatchFrom(name, pat, i, j + 1)
              \/ (/\ i <= Len(name)
                  /\ name[i] # "/"
                  /\ SegmentMatchFrom(name, pat, i + 1, j))
    ELSE /\ i <= Len(name)
         /\ name[i] = pat[j]
         /\ SegmentMatchFrom(name, pat, i + 1, j + 1)

\* C23: patterns are matched case-sensitively with segment wildcards: a
\* single "*" matches within one path segment and never across "/" (docs/*.md
\* matches docs/x.md, not docs/a/x.md), while "**" may span segments.
C23_StarStaysWithinSegment ==
    call.op = "path_matches" =>
        (call.result <=>
            \E n \in 1..Len(call.patterns) :
                SegmentMatchFrom(call.path, call.patterns[n], 1, 1))

\* C23, as far as it holds: matching is case-sensitive, and every path that
\* matches with segment wildcards matches.
C23_CaseSensitiveAndNoLessThanSegmentwise ==
    call.op = "path_matches" =>
        /\ (\E n \in 1..Len(call.patterns) :
               SegmentMatchFrom(call.path, call.patterns[n], 1, 1))
              => call.result
        /\ call.result =>
              \E n \in 1..Len(call.patterns) :
                  MatchFrom(call.path, call.patterns[n], 1, 1)
                  /\ \A i \in 1..Len(call.patterns[n]) :
                        call.patterns[n][i] \notin {"*", "?"} =>
                            \E k \in 1..Len(call.path) :
                                call.path[k] = call.patterns[n][i]

\* The packet documents whose policy severity is above none, in packet order.
FlaggedDocs ==
    LET Flagged(doc) == doc.policy.severity # "none"
    IN  SelectSeq(docs, Flagged)

\* C24: the flat findings list has exactly one entry for each packet document
\* whose policy severity is above none, in packet order, and none for the
\* others; the policy aggregate computed from the list equals the highest
\* policy severity over all documents of the packet.
C24_FindingsListMirrorsPacket ==
    DocumentsCollected =>
        /\ Len(policy_findings) = Len(FlaggedDocs)
        /\ \A i \in 1..Len(policy_findings) :
              /\ policy_findings[i].path = FlaggedDocs[i].path
              /\ policy_findings[i].severity = FlaggedDocs[i].policy.severity
              /\ policy_findings[i].status = FlaggedDocs[i].policy.status
              /\ policy_findings[i].reason = FlaggedDocs[i].policy.reason
        /\ worst_policy_severity(policy_findings) = PolicyAggregate

C24_Witness ==
    /\ DocumentsCollected
    /\ Len(docs) = 2
    /\ docs[1].policy.severity = "none"
    /\ docs[2].policy.severity = "minor"
    /\ Len(policy_findings) = 1
    /\ policy_findings[1].path = docs[2].path

Min(a, b) == IF a <= b THEN a ELSE b

\* The changed entries among the first max_docs whose file can be read.
ReadableWithinCap ==
    LET Readable(entry) == entry.exists
    IN  SelectSeq(SubSeq(changed, 1, Min(args["max_docs"], Len(changed))),
                  Readable)

\* C25: collect_docs produces one record, in input order, for each entry among
\* the first max_docs changed entries whose file can be read; an entry whose
\* file is not found is skipped and the run goes on; there are at most
\* min(max_docs, number of changed entries) records, and no entry after the
\* first max_docs is included, even when earlier entries were skipped.
C25_OneRecordPerReadableEntryWithinCap ==
    DocumentsCollected =>
        /\ Len(docs) = Len(ReadableWithinCap)
        /\ \A i \in 1..Len(docs) :
              /\ docs[i].path = ReadableWithinCap[i].path
              /\ docs[i].change_type = ReadableWithinCap[i].status
        /\ Len(docs) <= Min(args["max_docs"], Len(changed))
        /\ log[4] = [ev |-> "docs-count", n |-> Len(ReadableWithinCap)]

\* Cap 1, the first entry's file is gone, the second is readable: no record.
C25_Witness ==
    /\ DocumentsCollected
    /\ args["max_docs"] = 1
    /\ Len(changed) = 2
    /\ ~changed[1].exists
    /\ changed[2].exists
    /\ docs = << >>
    /\ pc = "exited"
    /\ outcome = "pass"

\* parse_frontmatter detects a header: the opening marker and, after it, a
\* line that begins with the closing marker.
HeaderDetected(text) == ~NoOpeningMarker(text) /\ ~NoClosingMarker(text)

\* The position of the newline before the closing delimiter line.
ClosingLineBreak(text) ==
    CHOOSE i \in 5..(Len(text) - 3) :
        /\ SubSeq(text, i, i + 3) = <<"\n", "-", "-", "-">>
        /\ \A j \in 5..(i - 1) : SubSeq(text, j, j + 3) # <<"\n", "-", "-", "-">>

\* The closing delimiter line, and the text after that complete line.
ClosingLine(text) ==
    LET rest == SubSeq(text, ClosingLineBreak(text) + 1, Len(text))
        n == IndexFrom(rest, <<"\n">>, 0)
    IN  IF n = -1 THEN rest ELSE SubSeq(rest, 1, n)

AfterClosingLine(text) ==
    LET rest == SubSeq(text, ClosingLineBreak(text) + 1, Len(text))
        n == IndexFrom(rest, <<"\n">>, 0)
    IN  IF n = -1 THEN << >> ELSE SubSeq(rest, n + 2, Len(rest))

\* The keys of the lines strictly between the two delimiters.
KeysBetweenDelimiters(text) ==
    LET lines == splitlines(SubSeq(text, 5, ClosingLineBreak(text) - 1))
    IN  {strip(SubSeq(lines[i], 1, IndexFrom(lines[i], <<":">>, 0))) :
            i \in {j \in 1..Len(lines) : IndexFrom(lines[j], <<":">>, 0) # -1}}

BodyExcludesHeaderBlock(text, result) ==
    /\ result[2] = lstrip_chars(AfterClosingLine(text), {"\n"})
    /\ DOMAIN result[1] \subseteq KeysBetweenDelimiters(text)

\* C26: whenever parse_frontmatter detects a header, the body is the text
\* after the complete closing delimiter line with leading newlines removed,
\* so it holds no character of the delimiters or of a header line, and the
\* mapping holds only keys of lines strictly between the two delimiters.
C26_BodyExcludesHeaderBlock ==
    (call.op = "parse_frontmatter" /\ HeaderDetected(call.text)) =>
        BodyExcludesHeaderBlock(call.text, call.result)

\* C26, as far as it holds: when the closing delimiter line is exactly "---".
C26_WhenClosingLineIsThreeDashes ==
    (/\ call.op = "parse_frontmatter"
     /\ HeaderDetected(call.text)
     /\ ClosingLine(call.text) = <<"-", "-", "-">>) =>
        BodyExcludesHeaderBlock(call.text, call.result)

\* A heading of any level: one or more "#", then a space.
IsHeading(line) ==
    /\ line # << >>
    /\ Head(line) = "#"
    /\ lstrip_chars(line, {"#"}) # << >>
    /\ Head(lstrip_chars(line, {"#"})) = " "

\* The heading's text, compared case-insensitively.
HeadingText(line) == lower(strip(lstrip_chars(line, {"#"})))

IsBullet(line) == Len(line) >= 2 /\ line[1] = "-" /\ line[2] = " "

\* The bullet items whose section heading, of whatever level, is in the
\* allow-list, in document order.
RECURSIVE BulletsUnderAllowedHeadings(_, _)
BulletsUnderAllowedHeadings(lines, allowed) ==
    IF lines = << >> THEN << >>
    ELSE LET line == strip(Head(lines))
         IN  IF IsHeading(line)
             THEN BulletsUnderAllowedHeadings(
                      Tail(lines), HeadingText(line) \in TargetSections)
             ELSE (IF allowed /\ IsBullet(line)
                   THEN <<strip(SubSeq(line, 3, Len(line)))>>
                   ELSE << >>)
                  \o BulletsUnderAllowedHeadings(Tail(lines), allowed)

ExpectedGoals(file) ==
    IF ~file.exists THEN << >>
    ELSE BulletsUnderAllowedHeadings(splitlines(file.text), FALSE)

\* C27: load_northstar_goals returns, in document order, exactly the bullet
\* items under a section whose heading is in the allow-list (compared
\* case-insensitively), no bullet under a heading outside the allow-list, of
\* whatever level, and the empty list for an absent document.
C27_OnlyBulletsUnderAllowedHeadings ==
    call.op = "load_northstar_goals" =>
        call.result = ExpectedGoals(call.file)

\* C27, as far as it holds: for an absent document, and for a document all
\* of whose headings are of level two.
C27_WithLevelTwoHeadingsOnly ==
    (/\ call.op = "load_northstar_goals"
     /\ \A i \in 1..Len(splitlines(call.file.text)) :
           LET line == strip(splitlines(call.file.text)[i])
           IN  IsHeading(line) => startswith(line, <<"#", "#", " ">>)) =>
        call.result = ExpectedGoals(call.file)

ExcerptWithinCap(body, max_chars, excerpt) ==
    /\ Len(excerpt) <= max_chars
    /\ Len(strip(CompactWhitespace(body))) <= max_chars =>
          excerpt = strip(CompactWhitespace(body))

\* C28: for every body and every cap max_chars >= 0 the length of
\* summarize_body(body, max_chars) is at most max_chars, and the excerpt is
\* the whitespace-compacted body whenever that fits within the cap.
C28_ExcerptWithinCap ==
    call.op = "summarize_body" =>
        ExcerptWithinCap(call.body, call.max_chars, call.result)

\* C28, as far as it holds: for caps of 3 or more.
C28_ForCapsOfThreeOrMore ==
    (call.op = "summarize_body" /\ call.max_chars >= 3) =>
        ExcerptWithinCap(call.body, call.max_chars, call.result)

PolicyGateFailed == \E i \in 1..Len(log) : log[i].ev = "policy-failed"

\* C29: the policy aggregate of a run is none, minor or major and never
\* critical, because no document is given the severity critical; so with the
\* policy threshold critical, as with none, the policy gate never fails a run.
C29_PolicyNeverCritical ==
    /\ \A i \in 1..Len(docs) : docs[i].policy.severity \in {"none", "minor", "major"}
    /\ PolicyAggregate \in {"none", "minor", "major"}
    /\ worst_policy \in {None, "none", "minor", "major"}
    /\ (OptionIs("policy_fail_on", "critical") \/ OptionIs("policy_fail_on", "none"))
          => ~PolicyGateFailed

C29_Witness ==
    /\ pc = "exited"
    /\ OptionIs("enforce_policy", TRUE)
    /\ OptionIs("policy_fail_on", "critical")
    /\ worst_policy = "major"
    /\ \E i \in 1..Len(docs) : docs[i].policy.status = "placement-invalid"
    /\ outcome = "pass"

\* The lines printed by the policy gate, and those printed once the judging
\* service was called or a judge output was read.
PolicyGateLines == {"worst-policy", "policy-failed"}

JudgingLines ==
    {"error-call-failed", "wrote-llm-output", "error-file-not-found",
     "error-invalid-json", "error-invalid-output", "llm-max-severity",
     "judge-failed", "blocking-reason"}

JudgingStarted == service_calls > 0 \/ model_output # NoJson \/ worst # None

\* C30: packet and prompt are written before any gate is evaluated; the
\* policy gate, when enforced, is evaluated before the judging service is
\* called or a judge output is read; when the enforced policy gate fails, the
\* service is never called, no Judge Output artifact is written and no judge
\* gate is evaluated.
C30_StepsInOrder ==
    /\ (worst_policy # None \/ JudgingStarted) =>
          /\ {"packet", "prompt"} \subseteq artifacts
          /\ log[1].ev = "wrote-packet"
          /\ log[2].ev = "wrote-prompt"
    /\ (JudgingStarted /\ PolicyEnforced) =>
          /\ worst_policy # None
          /\ \A i, j \in 1..Len(log) :
                (log[i].ev \in PolicyGateLines /\ log[j].ev \in JudgingLines)
                    => i < j
    /\ PolicyGateFailed =>
          /\ pc = "exited"
          /\ outcome = "fail"
          /\ ~JudgingStarted
          /\ "llm-output" \notin artifacts
          /\ \A i \in 1..Len(log) : log[i].ev \notin JudgingLines

C30_Witness ==
    /\ PolicyGateFailed
    /\ pc = "exited"
    /\ outcome = "fail"
    /\ artifacts = {"packet", "prompt"}
    /\ service_calls = 0

=============================================================================
